---------------------------- MODULE Spec2Model ----------------------------
(***************************************************************************)
(* A model of the photojobs resolution / synthesis / expansion engine:     *)
(*   keywords.locate_matches   (the fuzzy file resolver)                   *)
(*   csvgen.expand_rows        (name synthesis and fan-out)                *)
(*   rename.run                (applying a rename plan)                    *)
(*   teams.run                 (grouping and first-selection)              *)
(* Strings are sequences of one-character strings, so that the string      *)
(* operations of the code (stem, suffix, strip, startswith, regular        *)
(* expressions, joins and splits) are computed and not assumed.            *)
(***************************************************************************)
EXTENDS Integers, Sequences, FiniteSets, TLC

VARIABLES
    \* ---- keywords.locate_matches
    tree,       \* the files under root: records [dir, name]
    dirs,       \* the sub-directories of root that exist
    nominal,    \* spa_value, as [dir, name]
    hint,       \* [first, last]: the person hint
    result,     \* the returned list of paths
    rule,       \* the return statement that produced the result
    lpc,        \* "call" before the call, "done" after it
    \* ---- rename.run
    rfiles,     \* the files under root_folder: records [dir, name]
    rplan,      \* the plan's rows: records [photo, newfilename]
    rmode,      \* args.mode: "copy" or "move"
    rkeys,      \* rename_map's keys, in insertion order
    rdests,     \* rename_map: key -> list of destination names
    routdir,    \* whether output_root exists
    rout,       \* output_root's files: name -> the source file copied there
    rsrc,       \* source_idx
    rdst,       \* dest_idx
    rfound,     \* source_file of the current source, << >> before it is set
    rcount,     \* the counters and lists of the run
    rops,       \* the copy / move calls made so far
    rpc,        \* "start", "source", "dest", "done", "exit"
    rstatus,    \* the returned status, -1 while running
    \* ---- csvgen.process_csv
    craw,       \* row.get("Photo Filenames", "") of the roster record
    crow,       \* row: the renamed roster record
    crefs,      \* photo_filenames
    cmap,       \* batch_suffix_map, as a set of [batch, suffix]
    cjpg,       \* output_jpg
    cpng,       \* output_png
    crename,    \* the lines of DATA-RENAME.txt
    cprinted,   \* what process_csv has printed
    cpc,        \* "row" before parse_filenames, "call" before
                \* expand_rows, "done" after it, "written" at the end
    \* ---- teams.run
    tfiles,     \* the files under root_folder: records [dir, name]
    trows,      \* the rows of the CSV: [lastname, firstname, spa, teamname,
                \* batch]
    thasBatch,  \* "BATCH" in fieldnames
    tgroups,    \* person_team_images, in insertion order: [key, images]
    twithout,   \* rows_without_team
    tselected,  \* selected_batches, << >> for None
    tdefault,   \* default_team_name, << >> before it is set
    tidx,       \* the copy loop's position in person_team_images
    tcopies,    \* the copy calls made so far
    tout,       \* the files under output_root: [team, name]
    tcount,     \* the counters of the copy loop
    thist,      \* the phases entered and the prompt calls made
    tpc,        \* the position of run
    tstatus,    \* the returned status, -1 while running
    \* ---- keywords.run
    kfiles,     \* the files under root_folder: records [dir, name]
    kdirs,      \* the subfolders of root_folder
    krows,      \* the rows of the CSV
    kheaders,   \* the normalized headers of the CSV
    kmanual,    \* manual_keyword, << >> for None
    kfilenames, \* filenames of the current row
    kidx,       \* idx, the position in filenames
    kmatches,   \* matches of the current filename
    kmidx,      \* m_idx, the position in matches
    kname,      \* name, the keyword of the current row
    khint,      \* first and last of the current row
    khad,       \* row_had_success
    kcount,     \* the counters of the run
    kfailed,    \* failed_entries
    kmade,      \* what the run created: TEMP_DIR, output_root, the log
    kout,       \* the files written under output_root
    kops,       \* the matched files processed so far
    kpc,        \* the position of run
    kstatus,    \* the returned status, -1 while running
    \* ---- scale.run
    simages,    \* the entries of the source folder
    ssize,      \* args.size
    sexists,    \* whether the source folder exists and is a directory
    smade,      \* whether the run created the output folder
    sout,       \* the names of the files in the output folder
    sidx,       \* the position in image_files
    scount,     \* successful, skipped, failed
    spc,        \* the position of run
    sstatus,    \* the returned status, -1 while running
    \* ---- one call of a function of csvgen, keywords or teams
    farg,       \* the argument of the call
    fres,       \* the values returned so far
    fpc         \* "call" before the call, then the result being computed

locVars == <<tree, dirs, nominal, hint, result, rule, lpc>>
renVars == <<rfiles, rplan, rmode, rkeys, rdests, routdir, rout, rsrc, rdst,
             rfound, rcount, rops, rpc, rstatus>>
csvVars == <<craw, crow, crefs, cmap, cjpg, cpng, crename, cprinted, cpc>>
teamVars == <<tfiles, trows, thasBatch, tgroups, twithout, tselected,
              tdefault, tidx, tcopies, tout, tcount, thist, tpc, tstatus>>
kwVars == <<kfiles, kdirs, krows, kheaders, kmanual, kfilenames, kidx,
            kmatches, kmidx, kname, khint, khad, kcount, kfailed, kmade,
            kout, kops, kpc, kstatus>>
scVars == <<simages, ssize, sexists, smade, sout, sidx, scount, spc, sstatus>>
fnVars == <<farg, fres, fpc>>
vars == <<locVars, renVars, csvVars, teamVars, kwVars, scVars, fnVars>>

-----------------------------------------------------------------------------
(* Characters and strings                                                  *)

\* The characters the model uses, in ASCII order.
Ascii ==
    << "\t", "\n", " ", "'", "-", ".", "/",
       "0", "1", "2", "3", "4", "5", "6", "7", "8", "9",
       "A", "B", "C", "D", "E", "F", "G", "H", "I", "J", "K", "L", "M",
       "N", "O", "P", "Q", "R", "S", "T", "U", "V", "W", "X", "Y", "Z",
       "_",
       "a", "b", "c", "d", "e", "f", "g", "h", "i", "j", "k", "l", "m",
       "n", "o", "p", "q", "r", "s", "t", "u", "v", "w", "x", "y", "z",
       "|" >>

Code(c) == CHOOSE i \in 1..Len(Ascii) : Ascii[i] = c

Digits == {"0", "1", "2", "3", "4", "5", "6", "7", "8", "9"}
UpperLetters ==
    {"A", "B", "C", "D", "E", "F", "G", "H", "I", "J", "K", "L", "M",
     "N", "O", "P", "Q", "R", "S", "T", "U", "V", "W", "X", "Y", "Z"}
LowerLetters ==
    {"a", "b", "c", "d", "e", "f", "g", "h", "i", "j", "k", "l", "m",
     "n", "o", "p", "q", "r", "s", "t", "u", "v", "w", "x", "y", "z"}
Letters == UpperLetters \cup LowerLetters
Whitespace == {" ", "\t", "\n"}

IsDigit(c) == c \in Digits
IsLetter(c) == c \in Letters

\* str.lower() of one character: "A".."Z" are 32 code points below "a".."z"
\* ("_" lies between them in Ascii, hence the offset of 27 positions).
LowerChar(c) == IF c \in UpperLetters THEN Ascii[Code(c) + 27] ELSE c

Lower(s) == [i \in 1..Len(s) |-> LowerChar(s[i])]

StartsWith(s, p) == Len(p) <= Len(s) /\ SubSeq(s, 1, Len(p)) = p

EndsWith(s, p) ==
    Len(p) <= Len(s) /\ SubSeq(s, Len(s) - Len(p) + 1, Len(s)) = p

Contains(s, p) ==
    \E i \in 1..(Len(s) - Len(p) + 1) : SubSeq(s, i, i + Len(p) - 1) = p

\* str < str: the first differing character decides, a proper prefix is less.
StrLess(a, b) ==
    \/ /\ Len(a) < Len(b)
       /\ SubSeq(b, 1, Len(a)) = a
    \/ \E i \in 1..Len(a) :
          /\ i <= Len(b)
          /\ SubSeq(a, 1, i - 1) = SubSeq(b, 1, i - 1)
          /\ Code(a[i]) < Code(b[i])

\* str.strip(): leading and trailing whitespace removed.
Strip(s) ==
    LET keep == {i \in 1..Len(s) : s[i] \notin Whitespace}
    IN  IF keep = {} THEN << >>
        ELSE LET lo == CHOOSE i \in keep : \A j \in keep : i <= j
                 hi == CHOOSE i \in keep : \A j \in keep : j <= i
             IN  SubSeq(s, lo, hi)

\* The index of the last "." of s, 0 when there is none (str.rfind + 1).
LastDot(s) ==
    LET dots == {i \in 1..Len(s) : s[i] = "."}
    IN  IF dots = {} THEN 0 ELSE CHOOSE i \in dots : \A j \in dots : j <= i

\* pathlib's PurePath.suffix of a final component: the text from the last
\* dot on, unless that dot starts or ends the name.
Suffix(name) ==
    LET i == LastDot(name)
    IN  IF 1 < i /\ i < Len(name) THEN SubSeq(name, i, Len(name)) ELSE << >>

\* pathlib's PurePath.stem of a final component.
Stem(name) ==
    LET i == LastDot(name)
    IN  IF 1 < i /\ i < Len(name) THEN SubSeq(name, 1, i - 1) ELSE name

\* The path component that ends at position e of a path.
ComponentAt(path, e) ==
    SubSeq(path,
           CHOOSE b \in 1..e : /\ \A j \in b..e : path[j] # "/"
                               /\ b = 1 \/ path[b - 1] = "/",
           e)

\* pathlib's PurePath.name: the last component of a path, components
\* being separated by "/", empty ones and "." left out.
FinalComponent(path) ==
    LET ends == {e \in 1..Len(path) :
                    /\ path[e] # "/"
                    /\ e = Len(path) \/ path[e + 1] = "/"
                    /\ ComponentAt(path, e) # <<".">>}
    IN  IF ends = {} THEN << >>
        ELSE ComponentAt(path, CHOOSE e \in ends : \A x \in ends : x <= e)

\* Path(path).stem
PathStem(path) == Stem(FinalComponent(path))

Range(s) == {s[i] : i \in 1..Len(s)}

-----------------------------------------------------------------------------
(* The commands are separate processes: a specification runs one of them   *)
(* and leaves the variables of the others idle.                            *)

RenCountZero ==
    [total_dest_files |-> 0, unique_sources |-> 0, total_operations |-> 0,
     successful |-> 0, missing_sources |-> 0, errors |-> 0,
     missing_list |-> << >>, error_list |-> << >>]

RenIdle ==
    /\ rfiles = {}
    /\ rplan = << >>
    /\ rmode = "copy"
    /\ rkeys = << >>
    /\ rdests = << >>
    /\ routdir = FALSE
    /\ rout = << >>
    /\ rsrc = 0
    /\ rdst = 0
    /\ rfound = << >>
    /\ rcount = RenCountZero
    /\ rops = << >>
    /\ rpc = "idle"
    /\ rstatus = -1

TeamCountZero ==
    [total_person_team_assignments |-> 0, total_copied |-> 0,
     missing_files |-> 0, errors |-> 0]

TeamHistZero ==
    [trace |-> << >>, batch_calls |-> 0, team_calls |-> 0,
     invalid_inputs |-> 0, batches_seen |-> {}]

TeamIdle ==
    /\ tfiles = {}
    /\ trows = << >>
    /\ thasBatch = FALSE
    /\ tgroups = << >>
    /\ twithout = << >>
    /\ tselected = << >>
    /\ tdefault = << >>
    /\ tidx = 0
    /\ tcopies = << >>
    /\ tout = {}
    /\ tcount = TeamCountZero
    /\ thist = TeamHistZero
    /\ tpc = "idle"
    /\ tstatus = -1

KwCountZero ==
    [total_rows |-> 0, rows_with_success |-> 0, files_attempted |-> 0,
     files_success |-> 0, missing_files |-> 0, errors |-> 0,
     skipped_no_name |-> 0]

KwMadeNothing == [temp_dir |-> FALSE, output_root |-> FALSE, log |-> FALSE]

KwIdle ==
    /\ kfiles = {}
    /\ kdirs = {}
    /\ krows = << >>
    /\ kheaders = {}
    /\ kmanual = << >>
    /\ kfilenames = << >>
    /\ kidx = 0
    /\ kmatches = << >>
    /\ kmidx = 0
    /\ kname = << >>
    /\ khint = << >>
    /\ khad = FALSE
    /\ kcount = KwCountZero
    /\ kfailed = << >>
    /\ kmade = KwMadeNothing
    /\ kout = {}
    /\ kops = << >>
    /\ kpc = "idle"
    /\ kstatus = -1

ScCountZero == [successful |-> 0, skipped |-> 0, failed |-> 0]

FnIdle ==
    /\ farg = << >>
    /\ fres = << >>
    /\ fpc = "idle"

ScIdle ==
    /\ simages = << >>
    /\ ssize = 0
    /\ sexists = FALSE
    /\ smade = FALSE
    /\ sout = {}
    /\ sidx = 0
    /\ scount = ScCountZero
    /\ spc = "idle"
    /\ sstatus = -1

CsvIdle ==
    /\ craw = << >>
    /\ crename = << >>
    /\ cprinted = << >>
    /\ crow = << >>
    /\ crefs = << >>
    /\ cmap = {}
    /\ cjpg = << >>
    /\ cpng = << >>
    /\ cpc = "idle"

LocIdle ==
    /\ tree = {}
    /\ dirs = {}
    /\ nominal = << >>
    /\ hint = << >>
    /\ result = << >>
    /\ rule = "unset"
    /\ lpc = "idle"

-----------------------------------------------------------------------------
(* Paths.  A file is [dir, name]: dir is << >> for a file directly in root *)
(* and the name of the sub-directory of root otherwise.                    *)

Parts(f) == IF f.dir = << >> THEN <<f.name>> ELSE <<f.dir, f.name>>

\* PurePath.__lt__: the paths' parts compared as lists of strings.
PathLess(f, g) ==
    LET a == Parts(f)
        b == Parts(g)
    IN  \/ StrLess(a[1], b[1])
        \/ /\ a[1] = b[1]
           /\ \/ Len(a) < Len(b)
              \/ Len(a) = 2 /\ Len(b) = 2 /\ StrLess(a[2], b[2])

\* sorted(found): the paths of a set in ascending order.
RECURSIVE Sorted(_)
Sorted(S) ==
    IF S = {} THEN << >>
    ELSE LET m == CHOOSE f \in S : \A g \in S \ {f} : PathLess(f, g)
         IN  <<m>> \o Sorted(S \ {m})


-----------------------------------------------------------------------------
(* keywords.locate_matches                                                 *)

Underscore == <<"_">>

\* iterdir() of a directory, files only; << >> is root itself.
FilesIn(t, directory) == {f \in t : f.dir = directory}

DirExists(ds, directory) == directory = << >> \/ directory \in ds

\* search_root: the nominal's own parent when it exists, else root.
SearchRoot(spa, ds) == IF DirExists(ds, spa.dir) THEN spa.dir ELSE << >>

\* _norm_token: strip, lower-case, spaces to underscores.
NormToken(s) ==
    LET l == Lower(Strip(s))
    IN  [i \in 1..Len(l) |-> IF l[i] = " " THEN "_" ELSE l[i]]

\* name_prefixes: last_first_ and first_last_, only with both names given.
NamePrefixes(h) ==
    LET fn == NormToken(h.first)
        ln == NormToken(h.last)
    IN  IF fn # << >> /\ ln # << >>
        THEN {ln \o Underscore \o fn \o Underscore,
              fn \o Underscore \o ln \o Underscore}
        ELSE {}

NameOkAlways(fileStem, prefixes) == TRUE

\* _name_ok: without names nothing is blocked; with names the lower-cased
\* stem must start with one of the prefixes.
NameOk(fileStem, prefixes) ==
    IF prefixes = {} THEN TRUE
    ELSE \E p \in prefixes : StartsWith(Lower(fileStem), p)

StemHitExactOnly(fileStem, target) == fileStem = target

\* The stem test on lower-cased text.
StemHitCaseFolded(fileStem, target) ==
    \/ Lower(fileStem) = Lower(target)
    \/ StartsWith(Lower(fileStem), Lower(target) \o Underscore)

\* the test of matches_for_stem_in_dir and matches_for_stem_rglob
StemHit(fileStem, target) ==
    fileStem = target \/ StartsWith(fileStem, target \o Underscore)

\* The tail test without its third part.
TailHitSuffixOnly(fileStem, tail) ==
    fileStem = tail \/ EndsWith(fileStem, Underscore \o tail)

\* the test of matches_for_tail_in_dir and matches_for_tail_rglob,
\* without the name check
TailHit(fileStem, tail) ==
    \/ fileStem = tail
    \/ EndsWith(fileStem, Underscore \o tail)
    \/ Contains(fileStem \o Underscore, Underscore \o tail \o Underscore)

\* the test of matches_for_prefix_in_dir and matches_for_prefix_rglob
PrefixHit(fileStem, prefix) == StartsWith(fileStem, prefix \o Underscore)

MatchesForStemInDir(t, ds, directory, target) ==
    IF ~DirExists(ds, directory) THEN << >>
    ELSE Sorted({f \in FilesIn(t, directory) : StemHit(Stem(f.name), target)})

MatchesForStemRglob(t, target) ==
    Sorted({f \in t : StemHit(Stem(f.name), target)})

MatchesForTailInDir(t, ds, directory, tail, prefixes) ==
    IF ~DirExists(ds, directory) THEN << >>
    ELSE Sorted({f \in FilesIn(t, directory) :
                    /\ TailHit(Stem(f.name), tail)
                    /\ NameOk(Stem(f.name), prefixes)})

MatchesForTailRglob(t, tail, prefixes) ==
    Sorted({f \in t : /\ TailHit(Stem(f.name), tail)
                      /\ NameOk(Stem(f.name), prefixes)})

MatchesForPrefixInDir(t, ds, directory, prefix) ==
    IF ~DirExists(ds, directory) THEN << >>
    ELSE Sorted({f \in FilesIn(t, directory) :
                    PrefixHit(Stem(f.name), prefix)})

MatchesForPrefixRglob(t, prefix) ==
    Sorted({f \in t : PrefixHit(Stem(f.name), prefix)})

\* re.match(r"^([A-Za-z]+)(\d+)$", stem): the number of leading letters
\* when the stem is letters followed by digits to its end, else 0.
CameraSplit(stem) ==
    LET ks == {k \in 1..(Len(stem) - 1) :
                  /\ \A i \in 1..k : IsLetter(stem[i])
                  /\ \A i \in (k + 1)..Len(stem) : IsDigit(stem[i])}
    IN  IF ks = {} THEN 0 ELSE CHOOSE k \in ks : TRUE

\* js_tail: the last 4 digits of the numeric part, << >> for None.
JsTail(stem) ==
    LET k == CameraSplit(stem)
        num == SubSeq(stem, k + 1, Len(stem))
    IN  IF k > 0 /\ Len(num) >= 4 THEN SubSeq(num, Len(num) - 3, Len(num))
        ELSE << >>

\* re.match(r"^(.*)_\d+$", stem): the index of the underscore that is
\* followed by digits only to the end of the stem, 0 without a match.
NumSuffixAt(stem) ==
    LET us == {i \in 1..(Len(stem) - 1) :
                  /\ stem[i] = "_"
                  /\ \A j \in (i + 1)..Len(stem) : IsDigit(stem[j])}
    IN  IF us = {} THEN 0 ELSE CHOOSE i \in us : TRUE

\* The second half of locate_matches (the numbered steps 1 to 4), in the
\* order of the specification: each rule in the directory and then over
\* the whole root, before the next rule.
GeneralCascadeRuleFirst(t, ds, spa) ==
    LET stem == Stem(spa.name)
        sr == SearchRoot(spa, ds)
        at == NumSuffixAt(stem)
        prefix == SubSeq(stem, 1, at - 1)
        s1 == MatchesForStemInDir(t, ds, sr, stem)
        s3 == MatchesForStemRglob(t, stem)
        s2 == IF at > 0 THEN MatchesForPrefixInDir(t, ds, sr, prefix)
              ELSE << >>
        s4 == IF at > 0 /\ prefix # << >>
              THEN MatchesForPrefixRglob(t, prefix) ELSE << >>
    IN  IF s1 # << >> THEN [list |-> s1, rule |-> "stem_dir"]
        ELSE IF s3 # << >> THEN [list |-> s3, rule |-> "stem_root"]
        ELSE IF s2 # << >> THEN [list |-> s2, rule |-> "prefix_dir"]
        ELSE IF s4 # << >> THEN [list |-> s4, rule |-> "prefix_root"]
        ELSE [list |-> << >>, rule |-> "none"]

\* The second half of locate_matches: the numbered steps 1 to 4.  Step 2
\* runs whenever the stem ends in _<digits> (if m), step 4 only when the
\* prefix is not the empty string (if prefix).
GeneralCascade(t, ds, spa) ==
    LET stem == Stem(spa.name)
        sr == SearchRoot(spa, ds)
        at == NumSuffixAt(stem)
        prefix == SubSeq(stem, 1, at - 1)
        s1 == MatchesForStemInDir(t, ds, sr, stem)
        s2 == IF at > 0 THEN MatchesForPrefixInDir(t, ds, sr, prefix)
              ELSE << >>
        s3 == MatchesForStemRglob(t, stem)
        s4 == IF at > 0 /\ prefix # << >>
              THEN MatchesForPrefixRglob(t, prefix) ELSE << >>
    IN  IF s1 # << >> THEN [list |-> s1, rule |-> "stem_dir"]
        ELSE IF s2 # << >> THEN [list |-> s2, rule |-> "prefix_dir"]
        ELSE IF s3 # << >> THEN [list |-> s3, rule |-> "stem_root"]
        ELSE IF s4 # << >> THEN [list |-> s4, rule |-> "prefix_root"]
        ELSE [list |-> << >>, rule |-> "none"]

\* locate_matches(spa_value, root, first_name, last_name): the list it
\* returns and the return statement that produced it.
LocateMatches(t, ds, spa, h) ==
    IF Strip(spa.name) = << >> THEN [list |-> << >>, rule |-> "blank"]
    ELSE
    LET stem == Stem(spa.name)
        sr == SearchRoot(spa, ds)
        prefixes == NamePrefixes(h)
        isCamera == CameraSplit(stem) > 0
        a1 == MatchesForStemInDir(t, ds, sr, stem)
        a2 == MatchesForStemRglob(t, stem)
        tail == JsTail(stem)
        b1 == MatchesForTailInDir(t, ds, sr, tail, prefixes)
        b2 == MatchesForTailRglob(t, tail, prefixes)
    IN  IF isCamera /\ a1 # << >> THEN [list |-> a1, rule |-> "camera_dir"]
        ELSE IF isCamera /\ a2 # << >>
            THEN [list |-> a2, rule |-> "camera_root"]
        ELSE IF isCamera /\ tail # << >> /\ b1 # << >>
            THEN [list |-> b1, rule |-> "tail_dir"]
        ELSE IF isCamera /\ tail # << >> /\ b2 # << >>
            THEN [list |-> b2, rule |-> "tail_root"]
        ELSE GeneralCascade(t, ds, spa)


-----------------------------------------------------------------------------
(* The resolver's inputs                                                   *)

\* String literals: S_x_y is the string "x.y" (or "x_y").
S_JS106537_3_jpg ==
    << "J", "S", "1", "0", "6", "5", "3", "7", "_", "3", ".", "j",
       "p", "g" >>

S_Allen_Brielle_6537_3_jpg ==
    << "A", "l", "l", "e", "n", "_", "B", "r", "i", "e", "l", "l",
       "e", "_", "6", "5", "3", "7", "_", "3", ".", "j", "p", "g" >>

S_Smith_John_6537_jpg ==
    << "S", "m", "i", "t", "h", "_", "J", "o", "h", "n", "_", "6",
       "5", "3", "7", ".", "j", "p", "g" >>

S_Allen_Brielle_6538_3_jpg ==
    << "A", "l", "l", "e", "n", "_", "B", "r", "i", "e", "l", "l",
       "e", "_", "6", "5", "3", "8", "_", "3", ".", "j", "p", "g" >>

S_Allen_Brielle_6537_jpg ==
    << "A", "l", "l", "e", "n", "_", "B", "r", "i", "e", "l", "l",
       "e", "_", "6", "5", "3", "7", ".", "j", "p", "g" >>

S_JS106537_png ==
    << "J", "S", "1", "0", "6", "5", "3", "7", ".", "p", "n", "g" >>

S_allen_brielle_6537_4_jpg ==
    << "a", "l", "l", "e", "n", "_", "b", "r", "i", "e", "l", "l",
       "e", "_", "6", "5", "3", "7", "_", "4", ".", "j", "p", "g" >>

S_JS106537_jpg ==
    << "J", "S", "1", "0", "6", "5", "3", "7", ".", "j", "p", "g" >>

S_JS123_jpg ==
    << "J", "S", "1", "2", "3", ".", "j", "p", "g" >>

S_u9_jpg == <<"_", "9", ".", "j", "p", "g">>
S_u123_jpg == <<"_", "1", "2", "3", ".", "j", "p", "g">>
S_sub ==
    << "s", "u", "b" >>

S_other ==
    << "o", "t", "h", "e", "r" >>

S_gone ==
    << "g", "o", "n", "e" >>

S_Allen ==
    << "A", "l", "l", "e", "n" >>

S_Brielle ==
    << "B", "r", "i", "e", "l", "l", "e" >>

S_Smith ==
    << "S", "m", "i", "t", "h" >>

S_John ==
    << "J", "o", "h", "n" >>


\* The largest directory tree, in files.
MaxTreeSize == 3

File(d, n) == [dir |-> d, name |-> n]

\* The files a tree is drawn from: camera exports, renamed files of two
\* people sharing the tail 6537, in root and in two sub-directories.
FilePool ==
    { File(<< >>, S_JS106537_3_jpg),
      File(<< >>, S_Allen_Brielle_6537_3_jpg),
      File(<< >>, S_Smith_John_6537_jpg),
      File(<< >>, S_allen_brielle_6537_4_jpg),
      File(S_sub, S_Allen_Brielle_6538_3_jpg),
      File(S_sub, S_JS106537_png),
      File(S_other, S_Allen_Brielle_6537_jpg),
      File(S_other, S_u9_jpg) }

SubDirs == {S_sub, S_other}

\* The nominal references: a camera name, a renamed name with an existing
\* and with a missing parent, a camera name with a short number, a name
\* that is an underscore and a number, a blank.
NominalPool ==
    { File(<< >>, S_JS106537_jpg),
      File(S_sub, S_JS106537_jpg),
      File(S_sub, S_Allen_Brielle_6537_jpg),
      File(S_gone, S_Allen_Brielle_6537_jpg),
      File(<< >>, S_JS123_jpg),
      File(<< >>, S_u123_jpg),
      File(S_other, S_u123_jpg),
      File(<< >>, <<" ">>) }

\* The person hints: none, two full ones, one with the last name only.
HintPool ==
    { [first |-> << >>, last |-> << >>],
      [first |-> S_Brielle, last |-> S_Allen],
      [first |-> S_John, last |-> S_Smith],
      [first |-> << >>, last |-> S_Allen] }

InitLocate ==
    /\ tree \in {t \in SUBSET FilePool : Cardinality(t) <= MaxTreeSize}
    /\ dirs \in {ds \in SUBSET SubDirs : \A f \in tree : DirExists(ds, f.dir)}
    /\ nominal \in NominalPool
    /\ hint \in HintPool
    /\ result = << >>
    /\ rule = "unset"
    /\ lpc = "call"
    /\ RenIdle
    /\ CsvIdle
    /\ TeamIdle
    /\ KwIdle
    /\ ScIdle
    /\ FnIdle

\* One call of locate_matches.
Locate ==
    /\ lpc = "call"
    /\ LET r == LocateMatches(tree, dirs, nominal, hint)
       IN  /\ result' = r.list
           /\ rule' = r.rule
    /\ lpc' = "done"
    /\ UNCHANGED <<tree, dirs, nominal, hint>>
    /\ UNCHANGED <<renVars, csvVars, teamVars, kwVars, scVars, fnVars>>

NextLocate == Locate

SpecLocate == InitLocate /\ [][NextLocate]_vars

-----------------------------------------------------------------------------
(* The resolver's rules as section 4.4 of the specification states them,   *)
(* on the nominal and tree of the current state.                           *)

NominalStem == Stem(nominal.name)

\* The intended directory: the nominal's own parent if it exists, else root.
IntendedDir ==
    IF nominal.dir = << >> \/ nominal.dir \in dirs THEN nominal.dir ELSE << >>

IntendedFiles == {f \in tree : f.dir = IntendedDir}

\* Rule 1: the stem equals the nominal stem or starts with stem + "_".
Rule1(f) ==
    \/ Stem(f.name) = NominalStem
    \/ /\ Len(Stem(f.name)) > Len(NominalStem)
       /\ SubSeq(Stem(f.name), 1, Len(NominalStem) + 1) = NominalStem \o <<"_">>

IsCameraNominal == CameraSplit(NominalStem) > 0

\* Rule 2 without the hint: the stem equals the tail, ends with "_" + tail
\* or contains "_" + tail + "_".
TailMatch(f) ==
    LET tail == JsTail(NominalStem)
        st == Stem(f.name)
        n == Len(st)
    IN  /\ tail # << >>
        /\ \/ st = tail
           \/ n >= 5 /\ SubSeq(st, n - 4, n) = <<"_">> \o tail
           \/ \E i \in 1..(n - 5) :
                 SubSeq(st, i, i + 5) = <<"_">> \o tail \o <<"_">>

HintComplete == Strip(hint.first) # << >> /\ Strip(hint.last) # << >>

\* The two conventional name orderings built from the hint (compared on
\* lower-cased text, spaces of the hint as underscores).
HintPrefixOk(f) ==
    LET fn == NormToken(hint.first)
        ln == NormToken(hint.last)
        st == Lower(Stem(f.name))
    IN  \/ StartsWith(st, ln \o <<"_">> \o fn \o <<"_">>)
        \/ StartsWith(st, fn \o <<"_">> \o ln \o <<"_">>)

\* Rule 2: a tail match that the hint, when complete, does not reject.
Rule2(f) == TailMatch(f) /\ (HintComplete => HintPrefixOk(f))

\* Rule 3: the nominal stem ends in _<digits> and the stem starts with the
\* person prefix + "_".
Rule3(f) ==
    LET at == NumSuffixAt(NominalStem)
    IN  /\ at > 0
        /\ Len(Stem(f.name)) >= at
        /\ SubSeq(Stem(f.name), 1, at) = SubSeq(NominalStem, 1, at)

\* Rule 3 as the search over the whole root applies it: not with an empty
\* person prefix.
Rule3OverRoot(f) == Rule3(f) /\ NumSuffixAt(NominalStem) > 1

FirstNonEmpty(sets) ==
    LET idx == {i \in 1..Len(sets) : sets[i] # {}}
    IN  IF idx = {} THEN {}
        ELSE sets[CHOOSE i \in idx : \A j \in idx : i <= j]

Located == lpc = "done" /\ Strip(nominal.name) # << >>

\* C1 as stated: whenever some file anywhere under the root matches rule 1,
\* no file that matches only rule 3 is returned.
C1_RuleFirstOrder ==
    (Located /\ \E f \in tree : Rule1(f))
        => \A f \in Range(result) : ~(Rule3(f) /\ ~Rule1(f) /\ ~Rule2(f))

\* C1 amended: a camera-pattern nominal is resolved by rule 1 in the
\* intended directory, rule 1 over the root, rule 2 in the intended
\* directory, rule 2 over the root; any other nominal by rule 1 in the
\* intended directory, rule 3 in the intended directory, rule 1 over the
\* root, rule 3 over the root unless the person prefix is empty; the first
\* step that matches anything gives the result.  So a rule-1 match in the
\* intended directory excludes every file matching only rule 3, a rule-1
\* match elsewhere under root does not.
C1_ScopeFirstOrder ==
    Located =>
        /\ Range(result) =
              IF IsCameraNominal
              THEN FirstNonEmpty(<< {f \in IntendedFiles : Rule1(f)},
                                    {f \in tree : Rule1(f)},
                                    {f \in IntendedFiles : Rule2(f)},
                                    {f \in tree : Rule2(f)} >>)
              ELSE FirstNonEmpty(<< {f \in IntendedFiles : Rule1(f)},
                                    {f \in IntendedFiles : Rule3(f)},
                                    {f \in tree : Rule1(f)},
                                    {f \in tree : Rule3OverRoot(f)} >>)
        /\ (\E f \in IntendedFiles : Rule1(f))
              => \A f \in Range(result) : Rule1(f)

\* C1 witness: a rule-3 match of the intended directory is returned while
\* another directory holds a rule-1 match.
C1_Witness ==
    /\ Located
    /\ rule = "prefix_dir"
    /\ \E f \in tree : Rule1(f)
    /\ \A f \in Range(result) : Rule3(f) /\ ~Rule1(f)

\* C2: for a camera-pattern nominal with a rule-1 match anywhere under the
\* root, the result is exactly the rule-1 matches of the first non-empty
\* scope, and the tail and person-prefix fallbacks are not reached.
C2_CameraRule1 ==
    (Located /\ IsCameraNominal /\ \E f \in tree : Rule1(f))
        => /\ Range(result) =
                 IF {f \in IntendedFiles : Rule1(f)} # {}
                 THEN {f \in IntendedFiles : Rule1(f)}
                 ELSE {f \in tree : Rule1(f)}
           /\ Len(result) = Cardinality(Range(result))
           /\ rule \in {"camera_dir", "camera_root"}

\* C2 witness: the tree holds only JS106537_3.jpg and the nominal
\* JS106537.jpg resolves to it by rule 1.
C2_Witness ==
    /\ lpc = "done"
    /\ tree = {File(<< >>, S_JS106537_3_jpg)}
    /\ nominal = File(<< >>, S_JS106537_jpg)
    /\ result = <<File(<< >>, S_JS106537_3_jpg)>>
    /\ rule = "camera_dir"

C16_PersonPrefixFallback ==
    (/\ Located
     /\ NumSuffixAt(NominalStem) > 0
     /\ \A f \in tree : ~Rule1(f))
        => Range(result) = FirstNonEmpty(<< {f \in IntendedFiles : Rule3(f)},
                                           {f \in tree : Rule3(f)} >>)

\* The hint prefix compared as written: the names stripped, their spaces
\* as underscores, upper and lower case told apart.
HintToken(str) ==
    [i \in 1..Len(Strip(str)) |->
        IF Strip(str)[i] = " " THEN "_" ELSE Strip(str)[i]]

HintPrefixCaseSensitive(f) ==
    \/ StartsWith(Stem(f.name), HintToken(hint.last) \o <<"_">>
                                    \o HintToken(hint.first) \o <<"_">>)
    \/ StartsWith(Stem(f.name), HintToken(hint.first) \o <<"_">>
                                    \o HintToken(hint.last) \o <<"_">>)

\* The result is strictly ascending in the order of paths.
ResultAscending ==
    \A i \in 1..Len(result) : \A j \in (i + 1)..Len(result) :
        PathLess(result[i], result[j])

\* C17 as stated: every returned list is strictly ascending, and every
\* returned file passes one of the rules with all of its comparisons, the
\* one of the person hint included, case-sensitive.
C17_AllCaseSensitive ==
    Located =>
        /\ ResultAscending
        /\ \A f \in Range(result) :
              \/ Rule1(f)
              \/ TailMatch(f) /\ (HintComplete => HintPrefixCaseSensitive(f))
              \/ Rule3(f)

\* C17 amended: every returned list is strictly ascending in the order of
\* paths (compared folder by folder, then by name), so no path is
\* repeated; the comparisons of stem equality, stem prefix, tail and person
\* prefix are case-sensitive; the comparison with the person hint is made
\* on lower-cased text.
C17_CaseSensitiveButHint ==
    Located =>
        /\ ResultAscending
        /\ \A f \in Range(result) :
              \/ Rule1(f)
              \/ /\ IsCameraNominal
                 /\ TailMatch(f)
                 /\ HintComplete => HintPrefixOk(f)
              \/ Rule3(f)

\* C17 witness: a list of two files in ascending order returned by the
\* tail rule, one of them accepted by the hint only on lower-cased text.
C17_Witness ==
    /\ Located
    /\ Len(result) >= 2
    /\ HintComplete
    /\ rule \in {"tail_dir", "tail_root"}
    /\ \E f \in Range(result) : ~HintPrefixCaseSensitive(f)
    /\ \E f \in tree \ Range(result) : TailMatch(f)

\* The digits a stem ends with.
TrailingDigits(stem) ==
    LET starts == {i \in 1..(Len(stem) + 1) :
                      \A j \in i..Len(stem) : IsDigit(stem[j])}
    IN  SubSeq(stem, CHOOSE i \in starts : \A j \in starts : i <= j,
               Len(stem))

\* The tail as claim C24 words it: the last 4 digits of the numeric
\* portion of a camera stem, when that portion has at least 4 digits.
NominalTail ==
    IF IsCameraNominal /\ Len(TrailingDigits(NominalStem)) >= 4
    THEN SubSeq(NominalStem, Len(NominalStem) - 3, Len(NominalStem))
    ELSE << >>

\* The stem equals the tail, ends with "_" + tail, or contains
\* "_" + tail + "_".
TailAccepted(f) ==
    /\ NominalTail # << >>
    /\ \/ Stem(f.name) = NominalTail
       \/ EndsWith(Stem(f.name), <<"_">> \o NominalTail)
       \/ Contains(Stem(f.name), <<"_">> \o NominalTail \o <<"_">>)

\* C24: for a camera-pattern nominal without a rule-1 match and without
\* a complete hint, the tail is the last 4 digits of the numeric portion
\* (none when it has fewer than 4 digits), and the returned files are
\* exactly the files of the intended directory or, if it has none, of the
\* whole root whose stem equals the tail, ends with "_" + tail or
\* contains "_" + tail + "_", whoever they are named after.
C24_TailWithoutHintUnfiltered ==
    (Located /\ IsCameraNominal /\ ~HintComplete /\ ~\E f \in tree : Rule1(f))
        => /\ JsTail(NominalStem) = NominalTail
           /\ Range(result)
                 = FirstNonEmpty(<< {f \in IntendedFiles : TailAccepted(f)},
                                    {f \in tree : TailAccepted(f)} >>)

\* C24 witness: with no hint, JS106537.jpg has resolved to the files of
\* two different people that share the tail 6537.
C24_Witness ==
    /\ Located
    /\ nominal = File(<< >>, S_JS106537_jpg)
    /\ hint = [first |-> << >>, last |-> << >>]
    /\ rule = "tail_dir"
    /\ File(<< >>, S_Allen_Brielle_6537_3_jpg) \in Range(result)
    /\ File(<< >>, S_Smith_John_6537_jpg) \in Range(result)

-----------------------------------------------------------------------------
(* rename.run                                                              *)

S_JS1_jpg == <<"J", "S", "1", ".", "j", "p", "g">>
S_JS1_png == <<"J", "S", "1", ".", "p", "n", "g">>
S_JS2_jpg == <<"J", "S", "2", ".", "j", "p", "g">>
S_JS2_png == <<"J", "S", "2", ".", "p", "n", "g">>
S_A_1_jpg == <<"A", "_", "1", ".", "j", "p", "g">>
S_A_1_png == <<"A", "_", "1", ".", "p", "n", "g">>
S_A_T_1_jpg == <<"A", "_", "T", "_", "1", ".", "j", "p", "g">>
S_B_2_jpg == <<"B", "_", "2", ".", "j", "p", "g">>
S_jpg == <<".", "j", "p", "g">>
S_JPG == <<".", "J", "P", "G">>
S_jpeg == <<".", "j", "p", "e", "g">>
S_JPEG == <<".", "J", "P", "E", "G">>
S_png == <<".", "p", "n", "g">>
S_PNG == <<".", "P", "N", "G">>

\* The longest plan, in rows.
MaxPlanRows == 2

\* The extensions find_source_file tries directly under root, in order.
CommonExts == <<S_jpg, S_JPG, S_jpeg, S_JPEG, S_png, S_PNG>>

\* find_source_file's exact match: the first root / (stem + ext) that is a
\* file, as a one-element set, {} when there is none.
ExactMatch(files, searchStem) ==
    LET hits == {i \in 1..Len(CommonExts) :
                    File(<< >>, searchStem \o CommonExts[i]) \in files}
    IN  IF hits = {} THEN {}
        ELSE {File(<< >>,
                   searchStem \o CommonExts[CHOOSE i \in hits :
                                               \A j \in hits : i <= j])}

\* find_source_file(root, filename): the files it can return.  The exact
\* match is determined; the recursive fallback returns the first file with
\* that stem in the order rglob yields them, which the file system decides.
FindSourceFile(files, filename) ==
    LET searchStem == Stem(filename)
        exact == ExactMatch(files, searchStem)
    IN  IF exact # {} THEN exact
        ELSE {f \in files : Stem(f.name) = searchStem}

DestNameAsPlanned(destName, sourceFile) == destName

\* dest_name_with_ext = dest_name_path.stem + source_file.suffix
DestNameWithExt(destName, sourceFile) ==
    Stem(destName) \o Suffix(sourceFile.name)

\* The rename_map built from the rows read so far: [keys, dests].
RECURSIVE BuildRenameMap(_)
BuildRenameMap(rows) ==
    IF rows = << >> THEN [keys |-> << >>, dests |-> << >>]
    ELSE LET m == BuildRenameMap(SubSeq(rows, 1, Len(rows) - 1))
             row == rows[Len(rows)]
             photo == Strip(row.photo)
             newfilename == Strip(row.newfilename)
             at == {i \in 1..Len(m.keys) : m.keys[i] = photo}
         IN  IF photo = << >> \/ newfilename = << >> THEN m
             ELSE IF at = {}
                 THEN [keys |-> Append(m.keys, photo),
                       dests |-> Append(m.dests, <<newfilename>>)]
             ELSE LET i == CHOOSE i \in at : TRUE
                  IN  [keys |-> m.keys,
                       dests |-> [m.dests EXCEPT
                                     ![i] = Append(@, newfilename)]]

RECURSIVE SumLen(_)
SumLen(lists) ==
    IF lists = << >> THEN 0 ELSE Len(Head(lists)) + SumLen(Tail(lists))

\* output_root's files after one more file is written under a name.
WriteFile(out, name, from) ==
    IF \E i \in 1..Len(out) : out[i].name = name
    THEN [i \in 1..Len(out) |->
             IF out[i].name = name THEN [name |-> name, from |-> from]
             ELSE out[i]]
    ELSE Append(out, [name |-> name, from |-> from])

\* The rows a plan is drawn from: the .jpg and the .png variant of one shot
\* (as csvgen's DATA-ALL lists them), a second roster row for the same
\* photo, another photo, the first photo under its other extension, a
\* blank PHOTO and a blank NEWFILENAME.
PlanRowPool ==
    { [photo |-> S_JS1_jpg, newfilename |-> S_A_1_jpg],
      [photo |-> S_JS1_jpg, newfilename |-> S_A_1_png],
      [photo |-> S_JS1_jpg, newfilename |-> S_A_T_1_jpg],
      [photo |-> S_JS2_jpg, newfilename |-> S_B_2_jpg],
      [photo |-> S_JS1_png, newfilename |-> S_B_2_jpg],
      [photo |-> <<" ">>, newfilename |-> S_A_1_jpg],
      [photo |-> S_JS2_jpg, newfilename |-> << >>] }

Plans == UNION {[1..n -> PlanRowPool] : n \in 0..MaxPlanRows}

\* The source files: one whose extension differs from the plan's, and two
\* with the same stem in different sub-directories.
RenFilePool ==
    { File(<< >>, S_JS1_png),
      File(S_sub, S_JS2_jpg),
      File(S_other, S_JS2_png) }

InitRename ==
    /\ LocIdle
    /\ CsvIdle
    /\ TeamIdle
    /\ KwIdle
    /\ ScIdle
    /\ FnIdle
    /\ rfiles \in SUBSET RenFilePool
    /\ rplan \in Plans
    /\ rmode \in {"copy", "move"}
    /\ rkeys = << >>
    /\ rdests = << >>
    /\ routdir = FALSE
    /\ rout = << >>
    /\ rsrc = 0
    /\ rdst = 0
    /\ rfound = << >>
    /\ rcount = RenCountZero
    /\ rops = << >>
    /\ rpc = "start"
    /\ rstatus = -1

\* run up to the rename loop: the precondition checks, the plan read into
\* rename_map, and the output directory created.
RenameLoad ==
    /\ rpc = "start"
    /\ \E pre \in {"ok", "no_root", "no_plan", "no_columns"} :
          LET m == BuildRenameMap(rplan)
          IN  IF pre # "ok" \/ m.keys = << >>
              THEN /\ rpc' = "exit"
                   /\ rstatus' = 1
                   /\ UNCHANGED <<rkeys, rdests, routdir, rsrc, rcount>>
              ELSE /\ rkeys' = m.keys
                   /\ rdests' = m.dests
                   /\ rcount' = [rcount EXCEPT
                                    !.total_dest_files = SumLen(m.dests),
                                    !.unique_sources = Len(m.keys)]
                   /\ routdir' = TRUE
                   /\ rsrc' = 1
                   /\ rpc' = "source"
                   /\ UNCHANGED rstatus
    /\ UNCHANGED <<rfiles, rplan, rmode, rout, rdst, rfound, rops>>
    /\ UNCHANGED <<locVars, csvVars, teamVars, kwVars, scVars, fnVars>>

\* A source that was not found adds nothing to total_operations.
SkippedOperationsNone(destNames) == 0

\* total_operations += len(dest_names) for a source that was not found
SkippedOperations(destNames) == Len(destNames)

\* Every operation of a move run moves.
IsMoveOperationAlways(mode, destIdx, count) == mode = "move"

\* mode == "move" and dest_idx == len(dest_names)
IsMoveOperation(mode, destIdx, count) == mode = "move" /\ destIdx = count

\* One iteration of the outer loop up to the inner loop: the source is
\* looked up; a missing source skips all its destinations.
RenameFindSource ==
    /\ rpc = "source"
    /\ rsrc <= Len(rkeys)
    /\ LET cands == FindSourceFile(rfiles, rkeys[rsrc])
       IN  IF cands = {}
           THEN /\ rcount' = [rcount EXCEPT
                      !.missing_sources = @ + 1,
                      !.missing_list = Append(@, rkeys[rsrc]),
                      !.total_operations = @ + SkippedOperations(rdests[rsrc])]
                /\ rsrc' = rsrc + 1
                /\ UNCHANGED <<rfound, rdst, rpc>>
           ELSE /\ \E f \in cands : rfound' = f
                /\ rdst' = 1
                /\ rpc' = "dest"
                /\ UNCHANGED <<rcount, rsrc>>
    /\ UNCHANGED <<rfiles, rplan, rmode, rkeys, rdests, routdir, rout, rops,
                   rstatus>>
    /\ UNCHANGED <<locVars, csvVars, teamVars, kwVars, scVars, fnVars>>

\* One iteration of the inner loop: the source is copied, or moved when it
\* is the last destination in move mode; an exception of the copy or move
\* is counted and listed.
RenameApplyDest ==
    /\ rpc = "dest"
    /\ LET destName == rdests[rsrc][rdst]
           withExt == DestNameWithExt(destName, rfound)
           isMove == IsMoveOperation(rmode, rdst, Len(rdests[rsrc]))
           last == rdst = Len(rdests[rsrc])
       IN  /\ \E raised \in BOOLEAN :
                 IF raised
                 THEN /\ rcount' = [rcount EXCEPT
                            !.total_operations = @ + 1,
                            !.errors = @ + 1,
                            !.error_list = Append(@, <<rkeys[rsrc], destName>>)]
                      /\ rops' = Append(rops,
                            [src |-> rfound, plan |-> destName,
                             dest |-> withExt, move |-> isMove, ok |-> FALSE,
                             source_idx |-> rsrc, dest_idx |-> rdst,
                             existed |-> rfound \in rfiles])
                      /\ UNCHANGED <<rout, rfiles>>
                 ELSE /\ rcount' = [rcount EXCEPT
                            !.total_operations = @ + 1,
                            !.successful = @ + 1]
                      /\ rops' = Append(rops,
                            [src |-> rfound, plan |-> destName,
                             dest |-> withExt, move |-> isMove, ok |-> TRUE,
                             source_idx |-> rsrc, dest_idx |-> rdst,
                             existed |-> rfound \in rfiles])
                      /\ rout' = WriteFile(rout, withExt, rfound)
                      /\ rfiles' = IF isMove THEN rfiles \ {rfound} ELSE rfiles
           /\ IF last
              THEN /\ rsrc' = rsrc + 1
                   /\ rpc' = "source"
                   /\ UNCHANGED rdst
              ELSE /\ rdst' = rdst + 1
                   /\ UNCHANGED <<rsrc, rpc>>
    /\ UNCHANGED <<rplan, rmode, rkeys, rdests, routdir, rfound, rstatus>>
    /\ UNCHANGED <<locVars, csvVars, teamVars, kwVars, scVars, fnVars>>

\* The summary and return 0.
RenameFinish ==
    /\ rpc = "source"
    /\ rsrc > Len(rkeys)
    /\ rpc' = "done"
    /\ rstatus' = 0
    /\ UNCHANGED <<rfiles, rplan, rmode, rkeys, rdests, routdir, rout, rsrc,
                   rdst, rfound, rcount, rops>>
    /\ UNCHANGED <<locVars, csvVars, teamVars, kwVars, scVars, fnVars>>

NextRename ==
    \/ RenameLoad
    \/ RenameFindSource
    \/ RenameApplyDest
    \/ RenameFinish

SpecRename == InitRename /\ [][NextRename]_vars

\* C4: every destination written by the apply step is named by the plan
\* destination's stem followed by the extension of the resolved source
\* file; when the source has an extension, the written file has that
\* extension and the plan destination's stem, whatever extension the plan
\* recorded.
C4_ExtensionFromSource ==
    \A i \in 1..Len(rops) :
        LET op == rops[i]
            srcDot == LastDot(op.src.name)
            srcExt == IF 1 < srcDot /\ srcDot < Len(op.src.name)
                      THEN SubSeq(op.src.name, srcDot, Len(op.src.name))
                      ELSE << >>
            planDot == LastDot(op.plan)
            planStem == IF 1 < planDot /\ planDot < Len(op.plan)
                        THEN SubSeq(op.plan, 1, planDot - 1)
                        ELSE op.plan
        IN  op.ok =>
               /\ op.dest = planStem \o srcExt
               /\ \E j \in 1..Len(rout) : rout[j].name = planStem \o srcExt
               /\ srcExt # << >> =>
                     /\ Suffix(op.dest) = srcExt
                     /\ Stem(op.dest) = planStem

\* C4 witness: a plan destination ending .jpg with a resolved .png source
\* has been written as a .png file, and no .jpg file exists.
C4_Witness ==
    /\ rpc = "done"
    /\ \E i \in 1..Len(rops) :
          /\ rops[i].ok
          /\ rops[i].plan = S_A_1_jpg
          /\ rops[i].src = File(<< >>, S_JS1_png)
          /\ rops[i].dest = S_A_1_png
    /\ \A j \in 1..Len(rout) : Suffix(rout[j].name) # S_jpg

\* C5: within one run the destination paths of all copy / move operations
\* are pairwise distinct.
C5_DistinctDestinations ==
    \A i, j \in 1..Len(rops) :
        (i < j /\ rops[i].ok /\ rops[j].ok) => rops[i].dest # rops[j].dest

\* The plan rows that add to the mapping's entry of a key: the PHOTO is the
\* key once stripped and neither value is blank.
RowsCarrying(key) ==
    {k \in 1..Len(rplan) :
        /\ Strip(rplan[k].photo) = key
        /\ key # << >>
        /\ Strip(rplan[k].newfilename) # << >>}

\* The first plan row that gives a key a destination.
FirstRowOf(key, dest) ==
    CHOOSE k \in RowsCarrying(key) :
        /\ Strip(rplan[k].newfilename) = dest
        /\ \A j \in RowsCarrying(key) :
              Strip(rplan[j].newfilename) = dest => k <= j

\* C19: once the plan is read, the mapping's keys are the non-blank PHOTO
\* values of the rows with a non-blank NEWFILENAME, and each key's
\* destinations are the NEWFILENAME values of the rows carrying it: all
\* of them, each once, in order of first appearance.
C19_OrderedSetPerPhoto ==
    rpc \notin {"start", "exit"} =>
        /\ {rkeys[i] : i \in 1..Len(rkeys)}
              = {Strip(rplan[k].photo) :
                    k \in {j \in 1..Len(rplan) :
                              RowsCarrying(Strip(rplan[j].photo)) # {}}}
        /\ \A i \in 1..Len(rkeys) :
              /\ {rdests[i][j] : j \in 1..Len(rdests[i])}
                    = {Strip(rplan[k].newfilename) :
                          k \in RowsCarrying(rkeys[i])}
              /\ \A j1, j2 \in 1..Len(rdests[i]) :
                    j1 < j2 =>
                       /\ rdests[i][j1] # rdests[i][j2]
                       /\ FirstRowOf(rkeys[i], rdests[i][j1])
                             < FirstRowOf(rkeys[i], rdests[i][j2])


\* The destinations of the sources that were not found.
RECURSIVE SkippedDestinations(_)
SkippedDestinations(i) ==
    IF i = 0 THEN 0
    ELSE SkippedDestinations(i - 1)
            + IF \E k \in 1..Len(rcount.missing_list) :
                    rcount.missing_list[k] = rkeys[i]
              THEN Len(rdests[i]) ELSE 0

\* C29: at the end of a run that got past plan loading, total_operations
\* is total_dest_files, successful + errors + the destinations of the
\* sources not found is total_dest_files, and missing_list and error_list
\* are as long as missing_sources and errors count.
C29_EveryDestinationAccounted ==
    rpc = "done" =>
        /\ rcount.total_operations = rcount.total_dest_files
        /\ rcount.successful + rcount.errors + SkippedDestinations(Len(rkeys))
              = rcount.total_dest_files
        /\ Len(rcount.missing_list) = rcount.missing_sources
        /\ Len(rcount.error_list) = rcount.errors

\* C29 witness: a finished run with two planned destinations, one of a
\* source that was not found and one whose copy or move raised.
C29_Witness ==
    /\ rpc = "done"
    /\ rcount.total_dest_files = 2
    /\ rcount.missing_sources = 1
    /\ rcount.errors = 1

\* Every operation so far acted on a source that existed, and moved it
\* only in move mode and as the last destination of its source.
MovedOnlyByLastDestination ==
    \A i \in 1..Len(rops) :
        /\ rops[i].existed
        /\ rops[i].move <=>
              /\ rmode = "move"
              /\ rops[i].dest_idx = Len(rdests[rops[i].source_idx])

\* After a run without a raise the destination of every operation exists,
\* and in move mode no source of an operation is where it was.
AllWrittenAndMoved ==
    (rpc = "done" /\ \A i \in 1..Len(rops) : rops[i].ok) =>
        \A i \in 1..Len(rops) :
            /\ \E j \in 1..Len(rout) : rout[j].name = rops[i].dest
            /\ rmode = "move" => rops[i].src \notin rfiles

\* In copy mode a step removes no file under root.
CopyKeepsSources == rmode = "copy" => rfiles' = rfiles

\* C30: in a move run a found source is moved only by the operation of the
\* last destination of its list, the earlier ones copy it while it exists;
\* after a run in which nothing raised every such destination exists and
\* the source is gone from its path; a copy run removes no source.
C30_MoveOnlyLastDestination ==
    /\ [](MovedOnlyByLastDestination /\ AllWrittenAndMoved)
    /\ [][CopyKeepsSources]_vars

\* C30 witness: a finished move run in which nothing raised has copied a
\* source to its first destination and moved it to its second.
C30_Witness ==
    /\ rpc = "done"
    /\ rmode = "move"
    /\ Len(rops) = 2
    /\ rops[1].ok /\ ~rops[1].move
    /\ rops[2].ok /\ rops[2].move
    /\ rops[1].src = rops[2].src
    /\ rops[1].src \notin rfiles
    /\ Len(rout) = 2

-----------------------------------------------------------------------------
(* csvgen: sanitize, extract_number, extract_batch_prefix,                 *)
(* construct_filename, expand_rows                                         *)

S_Falcons == <<"F", "a", "l", "c", "o", "n", "s">>
S_J_V == <<" ", "J", " ", "V", ".">>
S_42 == <<"4", "2">>
S_5 == <<"5">>
S_photo_jpg == <<"p", "h", "o", "t", "o", ".", "j", "p", "g">>
S_UNKNOWN == <<"U", "N", "K", "N", "O", "W", "N">>
S_0000 == <<"0", "0", "0", "0">>
S_JS10 == <<"J", "S", "1", "0">>
S_a == <<"_", "a">>
S_Brielle_Allen ==
    << "B", "r", "i", "e", "l", "l", "e", " ", "A", "l", "l", "e",
       "n" >>
S_Allen_Brielle_Falcons_42_6537_jpg ==
    << "A", "l", "l", "e", "n", "_", "B", "r", "i", "e", "l", "l",
       "e", "_", "F", "a", "l", "c", "o", "n", "s", "_", "4", "2",
       "_", "6", "5", "3", "7", ".", "j", "p", "g" >>

\* The longest list of photo references of one roster row.
MaxRefs == 3

\* [A-Za-z0-9_-]
IsSafeChar(c) == c \in Letters \cup Digits \cup {"_", "-"}

\* str.replace(" ", "_")
SpacesToUnderscores(str) ==
    [i \in 1..Len(str) |-> IF str[i] = " " THEN "_" ELSE str[i]]

\* re.sub with count=1: only the first run of other characters removed.
SanitizeFirstRunOnly(value) ==
    LET str == SpacesToUnderscores(Strip(value))
        bad == {i \in 1..Len(str) : ~IsSafeChar(str[i])}
        lo == CHOOSE i \in bad : \A j \in bad : i <= j
        run == {i \in bad : \A j \in lo..i : j \in bad}
    IN  IF bad = {} THEN str
        ELSE SubSeq(str, 1, lo - 1)
                \o SubSeq(str, lo + Cardinality(run), Len(str))

\* sanitize: strip, spaces to underscores, then every other character
\* outside [A-Za-z0-9_-] removed.
Sanitize(value) == SelectSeq(SpacesToUnderscores(Strip(value)), IsSafeChar)

\* extract_number with group(1)[:4]: the first 4 digits of the run.
ExtractNumberFirstFour(stem) ==
    LET starts == {i \in 1..(Len(stem) - 3) :
                      \A j \in i..(i + 3) : IsDigit(stem[j])}
    IN  IF starts = {} THEN S_0000
        ELSE SubSeq(stem, CHOOSE i \in starts : \A j \in starts : i <= j,
                    (CHOOSE i \in starts : \A j \in starts : i <= j) + 3)

\* extract_number: the last 4 digits of the leftmost run of 4 or more
\* digits (re.search is leftmost, \d{4,} is greedy), "0000" without one.
ExtractNumber(stem) ==
    LET starts == {i \in 1..(Len(stem) - 3) :
                      \A j \in i..(i + 3) : IsDigit(stem[j])}
    IN  IF starts = {} THEN S_0000
        ELSE LET b == CHOOSE i \in starts : \A j \in starts : i <= j
                 ends == {e \in (b + 3)..Len(stem) :
                             \A j \in b..e : IsDigit(stem[j])}
                 e == CHOOSE x \in ends : \A y \in ends : y <= x
             IN  SubSeq(stem, e - 3, e)

\* re.search in place of re.match: the first letters followed by two
\* digits anywhere in the stem.
ExtractBatchPrefixSearch(filename) ==
    LET stem == PathStem(filename)
        hits == {p \in (1..Len(stem)) \X (1..Len(stem)) :
                    /\ p[1] <= p[2] /\ p[2] + 2 <= Len(stem)
                    /\ \A i \in p[1]..p[2] : IsLetter(stem[i])
                    /\ IsDigit(stem[p[2] + 1])
                    /\ IsDigit(stem[p[2] + 2])}
        first == CHOOSE p \in hits : \A q \in hits : p[1] <= q[1]
    IN  IF hits = {} THEN S_UNKNOWN
        ELSE SubSeq(stem, first[1], first[2] + 2)

\* extract_batch_prefix: the leading letters and the two digits after
\* them, "UNKNOWN" when the stem does not start that way.
ExtractBatchPrefix(filename) ==
    LET stem == PathStem(filename)
        ks == {k \in 1..(Len(stem) - 2) :
                  /\ \A i \in 1..k : IsLetter(stem[i])
                  /\ IsDigit(stem[k + 1])
                  /\ IsDigit(stem[k + 2])}
    IN  IF ks = {} THEN S_UNKNOWN
        ELSE SubSeq(stem, 1, (CHOOSE k \in ks : \A j \in ks : j <= k) + 2)

\* "_".join(parts)
RECURSIVE JoinUnderscore(_)
JoinUnderscore(parts) ==
    IF Len(parts) = 0 THEN << >>
    ELSE IF Len(parts) = 1 THEN parts[1]
    ELSE parts[1] \o Underscore \o JoinUnderscore(Tail(parts))

\* if token: parts.append(token)
AppendIfAny(parts, token) ==
    IF token # << >> THEN Append(parts, token) ELSE parts

ConstructFilenameGradeFirst(row, fileNumber, ext, batchSuffix) ==
    JoinUnderscore(
        Append(AppendIfAny(AppendIfAny(AppendIfAny(
                   <<Sanitize(row.LASTNAME), Sanitize(row.FIRSTNAME)>>,
                   Sanitize(row.TEAMNAME)),
                   Sanitize(row.GRADE)),
                   Sanitize(row.NUMBER)),
               fileNumber))
        \o batchSuffix \o ext

\* basename + batch_suffix + ext, or basename + ext without a suffix
WithSuffixAndExt(basename, ext, batchSuffix) ==
    IF batchSuffix # << >> THEN basename \o batchSuffix \o ext
    ELSE basename \o ext

\* construct_filename(row, file_number, ext, batch_suffix): parts is
\* [last, first], then team, number and grade when non-empty, then
\* file_number.
ConstructFilename(row, fileNumber, ext, batchSuffix) ==
    WithSuffixAndExt(
        JoinUnderscore(
            Append(AppendIfAny(AppendIfAny(AppendIfAny(
                       <<Sanitize(row.LASTNAME), Sanitize(row.FIRSTNAME)>>,
                       Sanitize(row.TEAMNAME)),
                       Sanitize(row.NUMBER)),
                       Sanitize(row.GRADE)),
                   fileNumber)),
        ext, batchSuffix)

\* batch_suffix_map.get(batch_prefix, "")
SuffixFor(map, batchPrefix) ==
    IF \E e \in map : e.batch = batchPrefix
    THEN (CHOOSE e \in map : e.batch = batchPrefix).suffix
    ELSE << >>

\* row.copy() with FILENUMBER, BATCH, PHOTO, NEWFILENAME and SPA set.
OutputRecord(row, fileNumber, batchPrefix, fname, newname) ==
    [LASTNAME |-> row.LASTNAME, FIRSTNAME |-> row.FIRSTNAME,
     TEAMNAME |-> row.TEAMNAME, GRADE |-> row.GRADE, NUMBER |-> row.NUMBER,
     NAME |-> row.NAME,
     FILENUMBER |-> fileNumber, BATCH |-> batchPrefix, PHOTO |-> fname,
     NEWFILENAME |-> newname, SPA |-> newname]

\* The two records appended for one reference: [jpg, png].
RecordPair(row, fname, fileNumber, batchPrefix, batchSuffix) ==
    [jpg |-> OutputRecord(row, fileNumber, batchPrefix, fname,
                ConstructFilename(row, fileNumber, S_jpg, batchSuffix)),
     png |-> OutputRecord(row, fileNumber, batchPrefix, fname,
                ConstructFilename(row, fileNumber, S_png, batchSuffix))]

\* batch_suffix = batch_suffix_map.get(batch_prefix, "")
WithBatch(row, fname, fileNumber, batchPrefix, map) ==
    RecordPair(row, fname, fileNumber, batchPrefix,
               SuffixFor(map, batchPrefix))

\* The body of expand_rows' loop for one reference.
ExpandOne(row, fname, map) ==
    WithBatch(row, fname, ExtractNumber(PathStem(fname)),
              ExtractBatchPrefix(fname), map)

\* output_jpg.append(row_jpg); output_png.append(row_png)
AppendPair(out, one) ==
    [jpg |-> Append(out.jpg, one.jpg), png |-> Append(out.png, one.png)]

AppendPairUnlessMalformed(out, one) ==
    IF one.jpg.FILENUMBER = S_0000 THEN out ELSE AppendPair(out, one)

RECURSIVE ExpandRowsSkipMalformed(_, _, _)
ExpandRowsSkipMalformed(row, photoFilenames, map) ==
    IF photoFilenames = << >> THEN [jpg |-> << >>, png |-> << >>]
    ELSE AppendPairUnlessMalformed(
             ExpandRowsSkipMalformed(
                 row, SubSeq(photoFilenames, 1, Len(photoFilenames) - 1),
                 map),
             ExpandOne(row, photoFilenames[Len(photoFilenames)], map))

\* expand_rows(row, photo_filenames, batch_suffix_map): the pair
\* (output_jpg, output_png).
RECURSIVE ExpandRows(_, _, _)
ExpandRows(row, photoFilenames, map) ==
    IF photoFilenames = << >> THEN [jpg |-> << >>, png |-> << >>]
    ELSE AppendPair(
             ExpandRows(row,
                        SubSeq(photoFilenames, 1, Len(photoFilenames) - 1),
                        map),
             ExpandOne(row, photoFilenames[Len(photoFilenames)], map))

\* The roster records: with and without last name, team (one that
\* sanitizes to J_V), number and grade, and two values of a column the
\* name does not use.
RosterPool ==
    [LASTNAME : {S_Allen, << >>}, FIRSTNAME : {S_Brielle},
     TEAMNAME : {S_Falcons, << >>, S_J_V}, NUMBER : {S_42, << >>},
     GRADE : {S_5, << >>}, NAME : {S_Brielle_Allen, << >>}]

\* The photo references: a camera export, an already renamed file and one
\* without any digits.
RefPool == {S_JS106537_jpg, S_Allen_Brielle_6537_3_jpg, S_photo_jpg}

SuffixMaps == { {}, {[batch |-> S_JS10, suffix |-> S_a]} }

\* re.sub(r"[\r\n;|]+", ",", raw): every maximal run of line breaks,
\* semicolons and bars becomes one comma.
CommaBreaks == {"\r", "\n", ";", "|"}

NotDropped(c) == c # ""

\* Each character of a run becomes a comma if it is the run's last one
\* and is dropped otherwise.
ReSubCommas(raw) ==
    SelectSeq([i \in 1..Len(raw) |->
                  IF raw[i] \notin CommaBreaks THEN raw[i]
                  ELSE IF i < Len(raw) /\ raw[i + 1] \in CommaBreaks THEN ""
                  ELSE ","],
              NotDropped)

\* The non-empty pieces of a string between the characters of seps, in
\* order: str.split() for whitespace, and the pieces of split(",") that
\* are not empty (an empty chunk gives no filename).
RECURSIVE Pieces(_, _)
RECURSIVE PiecesFrom(_, _, _)
Pieces(str, seps) ==
    IF str = << >> THEN << >>
    ELSE IF Head(str) \in seps THEN Pieces(Tail(str), seps)
    ELSE IF \A i \in 1..Len(str) : str[i] \notin seps THEN <<str>>
    ELSE PiecesFrom(str, seps,
                    CHOOSE i \in 1..Len(str) :
                        /\ str[i] \in seps
                        /\ \A j \in 1..(i - 1) : str[j] \notin seps)

PiecesFrom(str, seps, at) ==
    <<SubSeq(str, 1, at - 1)>> \o Pieces(SubSeq(str, at, Len(str)), seps)

\* for chunk in cleaned.split(",") for f in chunk.split()
RECURSIVE SplitChunks(_)
SplitChunks(chunks) ==
    IF chunks = << >> THEN << >>
    ELSE Pieces(Head(chunks), Whitespace) \o SplitChunks(Tail(chunks))

\* parse_filenames(raw)
ParseFilenames(raw) == SplitChunks(Pieces(ReSubCommas(raw), {","}))

\* rows.sort(key=lambda r: r.get("SPA", "")): a stable sort, so a row goes
\* after the rows before it whose SPA is not greater.
InsertBySPA(sorted, row) ==
    LET before == {i \in 1..Len(sorted) : ~StrLess(row.SPA, sorted[i].SPA)}
        n == IF before = {} THEN 0
             ELSE CHOOSE i \in before : \A j \in before : j <= i
    IN  SubSeq(sorted, 1, n) \o <<row>> \o SubSeq(sorted, n + 1, Len(sorted))

RECURSIVE SortBySPA(_)
SortBySPA(rows) ==
    IF rows = << >> THEN << >>
    ELSE InsertBySPA(SortBySPA(SubSeq(rows, 1, Len(rows) - 1)),
                     rows[Len(rows)])

\* writer.writerow([row.get("PHOTO", ""), row.get("SPA", "")]) of a
\* csv.writer with delimiter "\t": the two fields with a tab between them
\* (no field here holds a tab, a quote or a line break, which the writer
\* would quote).
RenameLine(row) == row.PHOTO \o <<"\t">> \o row.SPA

\* write_rename_txt(name, rows): the lines written, in SPA order.
RenameLines(sorted) == [i \in 1..Len(sorted) |-> RenameLine(sorted[i])]

WriteRenameTxt(rows) == RenameLines(SortBySPA(rows))

\* set(row.get("BATCH", "UNKNOWN") for row in jpg_rows)
BatchesFound(rows) == {rows[i].BATCH : i \in 1..Len(rows)}

\* The batch report: none for no row at all or the single batch UNKNOWN.
BatchReport(batchesFound) ==
    IF Cardinality(batchesFound) > 1 THEN <<"multiple_batches">>
    ELSE IF Cardinality(batchesFound) = 1 /\ batchesFound # {S_UNKNOWN}
         THEN <<"single_batch">>
         ELSE << >>

\* What process_csv prints: the line about the generated files, then the
\* batch report.
Printed(rows) == <<"generated">> \o BatchReport(BatchesFound(rows))

RECURSIVE JoinWith(_, _)
JoinWith(refs, sep) ==
    IF refs = << >> THEN << >>
    ELSE IF Len(refs) = 1 THEN refs[1]
    ELSE refs[1] \o sep \o JoinWith(Tail(refs), sep)

\* The "Photo Filenames" cells: up to MaxRefs references with commas
\* between them (the empty cell among them), two references with other
\* separators between them, and a cell that holds separators only.
RawPool ==
    {JoinWith(refs, <<",">>) :
        refs \in UNION {[1..n -> RefPool] : n \in 0..MaxRefs}}
        \cup { JoinWith(<<S_JS106537_jpg, S_photo_jpg>>, <<";", " ">>),
               JoinWith(<<S_photo_jpg, S_JS106537_jpg>>, <<" ", "|", "\n">>),
               <<" ", ";", " ">> }

\* process_csv for a roster of one record, before its row is read.
InitCsv ==
    /\ LocIdle
    /\ RenIdle
    /\ TeamIdle
    /\ KwIdle
    /\ ScIdle
    /\ FnIdle
    /\ crow \in RosterPool
    /\ craw \in RawPool
    /\ cmap \in SuffixMaps
    /\ crefs = << >>
    /\ cjpg = << >>
    /\ cpng = << >>
    /\ crename = << >>
    /\ cprinted = << >>
    /\ cpc = "row"

\* photos = parse_filenames(row.get("Photo Filenames", ""))
CsvParse ==
    /\ cpc = "row"
    /\ crefs' = ParseFilenames(craw)
    /\ cpc' = "call"
    /\ UNCHANGED <<craw, crow, cmap, cjpg, cpng, crename, cprinted>>
    /\ UNCHANGED <<locVars, renVars, teamVars, kwVars, scVars, fnVars>>

\* One call of expand_rows.
CsvExpand ==
    /\ cpc = "call"
    /\ cjpg' = ExpandRows(crow, crefs, cmap).jpg
    /\ cpng' = ExpandRows(crow, crefs, cmap).png
    /\ cpc' = "done"
    /\ UNCHANGED <<craw, crow, crefs, cmap, crename, cprinted>>
    /\ UNCHANGED <<locVars, renVars, teamVars, kwVars, scVars, fnVars>>

\* The end of process_csv: the files are written and the report printed.
CsvWrite ==
    /\ cpc = "done"
    /\ crename' = WriteRenameTxt(cjpg)
    /\ cprinted' = Printed(cjpg)
    /\ cpc' = "written"
    /\ UNCHANGED <<craw, crow, crefs, cmap, cjpg, cpng>>
    /\ UNCHANGED <<locVars, renVars, teamVars, kwVars, scVars, fnVars>>

NextCsv ==
    \/ CsvParse
    \/ CsvExpand
    \/ CsvWrite

SpecCsv == InitCsv /\ [][NextCsv]_vars

\* C6: n photo references give exactly n .jpg and n .png records, 2n in
\* all; the two records of a reference share FILENUMBER, BATCH and PHOTO
\* and have distinct SPA names; a malformed reference changes no count.
C6_TwoPerReference ==
    cpc = "done" =>
        /\ Len(cjpg) = Len(crefs)
        /\ Len(cpng) = Len(crefs)
        /\ \A i \in 1..Len(crefs) :
              /\ i \in DOMAIN cjpg /\ i \in DOMAIN cpng
              /\ cjpg[i].PHOTO = crefs[i]
              /\ cpng[i].PHOTO = crefs[i]
              /\ cjpg[i].FILENUMBER = cpng[i].FILENUMBER
              /\ cjpg[i].BATCH = cpng[i].BATCH
              /\ cjpg[i].SPA # cpng[i].SPA
              /\ EndsWith(cjpg[i].SPA, S_jpg)
              /\ EndsWith(cpng[i].SPA, S_png)

\* C6 witness: three references, one of them without digits, have been
\* expanded to six records.
C6_Witness ==
    /\ cpc = "done"
    /\ Len(crefs) = 3
    /\ \E i \in 1..3 : crefs[i] = S_photo_jpg
    /\ Len(cjpg) + Len(cpng) = 6

NonEmptyToken(tok) == tok # << >>

\* The tokens of a name as section 4.2 lists them: last, first, then team,
\* number and grade when non-empty, then the sequence.
NameTokens(rec) ==
    <<Sanitize(rec.LASTNAME), Sanitize(rec.FIRSTNAME)>>
        \o SelectSeq(<<Sanitize(rec.TEAMNAME), Sanitize(rec.NUMBER),
                       Sanitize(rec.GRADE)>>, NonEmptyToken)
        \o <<rec.FILENUMBER>>

\* The tokens, each but the first preceded by an underscore.
RECURSIVE Underscored(_)
Underscored(toks) ==
    IF Len(toks) = 1 THEN toks[1]
    ELSE Underscored(SubSeq(toks, 1, Len(toks) - 1))
            \o <<"_">> \o toks[Len(toks)]

\* The name the claim expects for an output record with an extension.
ExpectedName(rec, ext) ==
    Underscored(NameTokens(rec)) \o SuffixFor(cmap, rec.BATCH) \o ext

\* C7: every synthesized name is the underscore-join of sanitized
\* LASTNAME, sanitized FIRSTNAME, then TEAMNAME, NUMBER, GRADE in that
\* order (each of the three only when its sanitized value is non-empty),
\* then the sequence, followed directly by the batch suffix and the
\* extension; no other column of the record enters it.
C7_NameIsTokenJoin ==
    cpc = "done" =>
        \A i \in 1..Len(cjpg) :
            /\ cjpg[i].SPA = ExpectedName(cjpg[i], S_jpg)
            /\ cjpg[i].NEWFILENAME = cjpg[i].SPA
            /\ cpng[i].SPA = ExpectedName(cpng[i], S_png)
            /\ cpng[i].NEWFILENAME = cpng[i].SPA

\* C7 witness: TEAMNAME Falcons, LASTNAME Allen, FIRSTNAME Brielle,
\* NUMBER 42, no GRADE, sequence 6537, no suffix: the .jpg name is
\* Allen_Brielle_Falcons_42_6537.jpg.
C7_Witness ==
    /\ cpc = "done"
    /\ crow.LASTNAME = S_Allen /\ crow.FIRSTNAME = S_Brielle
    /\ crow.TEAMNAME = S_Falcons /\ crow.NUMBER = S_42
    /\ crow.GRADE = << >>
    /\ cmap = {}
    /\ crefs = <<S_JS106537_jpg>>
    /\ cjpg[1].SPA = S_Allen_Brielle_Falcons_42_6537_jpg

\* The lines process_csv prints for any roster.
RunReportLines == {"generated", "multiple_batches", "single_batch"}

\* C18: a record whose reference list is empty after parsing is reported
\* (something is printed besides the lines of every run) and gives no
\* output record and no plan line; no record is partially expanded: it
\* gives a .jpg and a .png record for every parsed reference or none.
C18_EmptyListReportedAndSkipped ==
    cpc = "written" =>
        /\ crefs = << >> =>
              /\ \E i \in 1..Len(cprinted) : cprinted[i] \notin RunReportLines
              /\ cjpg = << >> /\ cpng = << >> /\ crename = << >>
        /\ Len(cjpg) \in {0, Len(crefs)}
        /\ Len(cpng) = Len(cjpg)

\* The positions of the tabs of a plan line.
TabsOf(line) == {k \in 1..Len(line) : line[k] = "\t"}

\* C20: the rename plan has one line per photo reference, and every line
\* has exactly two tab-separated fields: a photo reference of the record
\* and the name synthesized for it, without its file extension.
C20_PlanLineWithoutExtension ==
    cpc = "written" =>
        /\ Len(crename) = Len(crefs)
        /\ \A i \in 1..Len(crename) :
              /\ Cardinality(TabsOf(crename[i])) = 1
              /\ \E j \in 1..Len(crefs) :
                    crename[i] = crefs[j] \o <<"\t">> \o Stem(cjpg[j].SPA)


-----------------------------------------------------------------------------
(* teams: extract_sequence_number, find_image_file, the prompts, run       *)

S_A == <<"A">>
S_B == <<"B">>
S_Bpipe == <<"B", "|">>
S_C == <<"C">>
S_D == <<"D">>
S_T == <<"T">>
S_A_B_5000_png ==
    << "A", "_", "B", "_", "5", "0", "0", "0", ".", "p", "n", "g" >>
S_A_B_T_1234_png ==
    << "A", "_", "B", "_", "T", "_", "1", "2", "3", "4", ".", "p",
       "n", "g" >>
S_A_B_1234_png ==
    << "A", "_", "B", "_", "1", "2", "3", "4", ".", "p", "n", "g" >>
S_C_D_T_2000_png ==
    << "C", "_", "D", "_", "T", "_", "2", "0", "0", "0", ".", "p",
       "n", "g" >>
S_X_1234_png == <<"X", "_", "1", "2", "3", "4", ".", "p", "n", "g">>
S_C_D_png == <<"C", "_", "D", ".", "p", "n", "g">>
S_JS20 == <<"J", "S", "2", "0">>

\* The longest CSV, in rows.
MaxRows == 3

\* The number of invalid answers the prompts of a run receive.
MaxReasks == 1

Pipe == <<"|">>

\* extract_sequence_number with matches[0] in place of matches[-1]: the
\* last 4 digits of the first run.
ExtractSequenceNumberFirstRun(filename) ==
    IF \E e \in 4..Len(PathStem(filename)) :
          \A j \in (e - 3)..e : IsDigit(PathStem(filename)[j])
    THEN ExtractNumber(PathStem(filename))
    ELSE << >>

\* matches[-1][-4:]: the last 4 digits of the last run of 4 or more digits
\* of the stem, << >> for None.
LastFourOfLastRun(stem) ==
    IF \E e \in 4..Len(stem) : \A j \in (e - 3)..e : IsDigit(stem[j])
    THEN SubSeq(stem,
                (CHOOSE e \in 4..Len(stem) :
                    /\ \A j \in (e - 3)..e : IsDigit(stem[j])
                    /\ \A x \in (e + 1)..Len(stem) :
                          \E j \in (x - 3)..x : ~IsDigit(stem[j])) - 3,
                CHOOSE e \in 4..Len(stem) :
                    /\ \A j \in (e - 3)..e : IsDigit(stem[j])
                    /\ \A x \in (e + 1)..Len(stem) :
                          \E j \in (x - 3)..x : ~IsDigit(stem[j]))
    ELSE << >>

\* extract_sequence_number(filename)
ExtractSequenceNumber(filename) == LastFourOfLastRun(PathStem(filename))

\* The extensions find_image_file tries directly under root, in order.
ImageExts == <<S_png, S_PNG, S_jpg, S_JPG, S_jpeg, S_JPEG>>

FirstExtHit(files, searchStem, hits) ==
    IF hits = {} THEN {}
    ELSE {File(<< >>, searchStem \o ImageExts[CHOOSE i \in hits :
                                                \A j \in hits : i <= j])}

\* find_image_file's exact match, as a set of at most one file.
ImageExactMatch(files, searchStem) ==
    FirstExtHit(files, searchStem,
                {i \in 1..Len(ImageExts) :
                    File(<< >>, searchStem \o ImageExts[i]) \in files})

\* find_image_file(root, filename): the files it can return (the
\* recursive fallback returns the first hit in rglob's order).
FindImageFile(files, filename) ==
    IF ImageExactMatch(files, Stem(filename)) # {}
    THEN ImageExactMatch(files, Stem(filename))
    ELSE {f \in files : Stem(f.name) = Stem(filename)}

\* person_team_key = f"{lastname}|{firstname}|{teamname}"
PersonTeamKey(lastname, firstname, teamname) ==
    lastname \o Pipe \o firstname \o Pipe \o teamname

\* str.split("|")
RECURSIVE SplitPipe(_)
SplitPipe(str) ==
    IF \A i \in 1..Len(str) : str[i] # "|" THEN <<str>>
    ELSE <<SubSeq(str, 1,
                  (CHOOSE i \in 1..Len(str) :
                      /\ str[i] = "|"
                      /\ \A j \in 1..(i - 1) : str[j] # "|") - 1)>>
         \o SplitPipe(SubSeq(str,
                  (CHOOSE i \in 1..Len(str) :
                      /\ str[i] = "|"
                      /\ \A j \in 1..(i - 1) : str[j] # "|") + 1,
                  Len(str)))

\* teamname = parts[2] if len(parts) > 2 else ""
KeyTeam(key) == IF Len(SplitPipe(key)) > 2 THEN SplitPipe(key)[3] ELSE << >>

\* batch = (row.get("BATCH") or "UNKNOWN").strip()
RowBatch(row, hasBatch) ==
    IF hasBatch /\ row.batch # << >> THEN Strip(row.batch) ELSE S_UNKNOWN

\* row_data
RowData(row, rowIndex, hasBatch) ==
    [lastname |-> Strip(row.lastname), firstname |-> Strip(row.firstname),
     spa |-> Strip(row.spa), teamname |-> Strip(row.teamname),
     batch |-> RowBatch(row, hasBatch),
     sequence |-> ExtractSequenceNumber(Strip(row.spa)),
     row_index |-> rowIndex]

\* The rows the read loop does not skip.
RowIsValid(rd) ==
    /\ rd.lastname # << >>
    /\ rd.firstname # << >>
    /\ rd.spa # << >>
    /\ rd.sequence # << >>

KeyOf(rd) == PersonTeamKey(rd.lastname, rd.firstname, rd.teamname)

\* a_defaultdict[key].append(rd), the dict as its items in insertion order
AppendToGroup(groups, key, rd) ==
    IF \E i \in 1..Len(groups) : groups[i].key = key
    THEN [i \in 1..Len(groups) |->
             IF groups[i].key = key
             THEN [key |-> key, images |-> Append(groups[i].images, rd)]
             ELSE groups[i]]
    ELSE Append(groups, [key |-> key, images |-> <<rd>>])

\* One iteration of the read loop on [groups, without].
ReadRow(acc, rd) ==
    IF ~RowIsValid(rd) THEN acc
    ELSE [groups |-> AppendToGroup(acc.groups, KeyOf(rd), rd),
          without |-> IF rd.teamname = << >> THEN Append(acc.without, rd)
                      ELSE acc.without]

\* The read loop over the CSV's rows.
RECURSIVE ReadRows(_, _)
ReadRows(rows, hasBatch) ==
    IF rows = << >> THEN [groups |-> << >>, without |-> << >>]
    ELSE ReadRow(ReadRows(SubSeq(rows, 1, Len(rows) - 1), hasBatch),
                 RowData(rows[Len(rows)], Len(rows), hasBatch))

\* batch_counts.keys()
BatchesOf(groups) ==
    UNION {{groups[i].images[j].batch : j \in 1..Len(groups[i].images)} :
              i \in 1..Len(groups)}

\* sorted(batches.items()): the batch names in ascending order
RECURSIVE SortedBatches(_)
SortedBatches(S) ==
    IF S = {} THEN << >>
    ELSE <<CHOOSE b \in S : \A c \in S \ {b} : StrLess(b, c)>>
         \o SortedBatches(S \ {CHOOSE b \in S :
                                  \A c \in S \ {b} : StrLess(b, c)})

\* What prompt_batch_selection returns for a valid choice_num.
BatchSelection(sortedBatches, choiceNum) ==
    IF choiceNum = Len(sortedBatches) + 1 THEN sortedBatches
    ELSE <<sortedBatches[choiceNum]>>

\* [row_data for row_data in images if row_data['batch'] in selected]
RECURSIVE InSelectedBatches(_, _)
InSelectedBatches(images, selected) ==
    IF images = << >> THEN << >>
    ELSE IF Head(images).batch \in Range(selected)
         THEN <<Head(images)>> \o InSelectedBatches(Tail(images), selected)
         ELSE InSelectedBatches(Tail(images), selected)

DropEmptyGroup(group) == IF group.images = << >> THEN << >> ELSE <<group>>

\* filtered_person_team_images: a key exists once an image was appended
RECURSIVE FilterGroups(_, _)
FilterGroups(groups, selected) ==
    IF groups = << >> THEN << >>
    ELSE DropEmptyGroup([key |-> Head(groups).key,
                         images |-> InSelectedBatches(Head(groups).images,
                                                      selected)])
         \o FilterGroups(Tail(groups), selected)

\* img_data['teamname'] = default_team_name when it was empty
WithDefaultTeam(rd, default) ==
    IF rd.teamname = << >> THEN [rd EXCEPT !.teamname = default] ELSE rd

RECURSIVE AllWithDefaultTeam(_, _)
AllWithDefaultTeam(images, default) ==
    IF images = << >> THEN << >>
    ELSE <<WithDefaultTeam(Head(images), default)>>
         \o AllWithDefaultTeam(Tail(images), default)

\* The inner loop of the rebuild: the images of one old group, in order.
RECURSIVE RebuildImages(_, _)
RebuildImages(acc, images) ==
    IF images = << >> THEN acc
    ELSE RebuildImages(AppendToGroup(acc, KeyOf(Head(images)), Head(images)),
                       Tail(images))

\* new_person_team_images: the old groups in key order, their images in
\* order, each appended under its rebuilt key.
RECURSIVE RebuildGroups(_, _, _)
RebuildGroups(acc, groups, default) ==
    IF groups = << >> THEN acc
    ELSE RebuildGroups(
             RebuildImages(acc, AllWithDefaultTeam(Head(groups).images,
                                                   default)),
             Tail(groups), default)

\* lastname, firstname = person_key.split("|") fails unless the key has
\* exactly one "|".
PersonKeyUnpacks(rd) ==
    Len(SplitPipe(rd.lastname \o Pipe \o rd.firstname)) = 2

\* Where run goes once the batches are settled: the listing of the people
\* without a team and the prompt, or the copy loop.
PhaseAfterBatchesAlwaysPrompt(without) ==
    IF \E i \in 1..Len(without) : ~PersonKeyUnpacks(without[i])
    THEN "raised"
    ELSE "team_prompt"

PhaseAfterBatches(without) ==
    IF without = << >> THEN "copy"
    ELSE IF \E i \in 1..Len(without) : ~PersonKeyUnpacks(without[i])
         THEN "raised"
         ELSE "team_prompt"

\* The phase entered, recorded in the history.
Enter(h, phase) ==
    [h EXCEPT !.trace = IF phase = "raised" THEN @ ELSE Append(@, phase),
              !.batch_calls = IF phase = "batch_prompt" THEN @ + 1 ELSE @,
              !.team_calls = IF phase = "team_prompt" THEN @ + 1 ELSE @]

\* existing_files: the images of the group that find_image_file resolves
RECURSIVE ExistingFiles(_, _)
ExistingFiles(files, images) ==
    IF images = << >> THEN << >>
    ELSE IF FindImageFile(files, Head(images).spa) # {}
         THEN <<Head(images)>> \o ExistingFiles(files, Tail(images))
         ELSE ExistingFiles(files, Tail(images))

\* sorted(existing_files, key=sequence)[0]: the stable sort keeps the
\* list's order among equal sequences.
FirstFile(existing) ==
    existing[CHOOSE i \in 1..Len(existing) :
                /\ \A j \in 1..Len(existing) :
                      ~StrLess(existing[j].sequence, existing[i].sequence)
                /\ \A j \in 1..(i - 1) :
                      existing[j].sequence # existing[i].sequence]

\* The files in the team folders of output_root, as the verification counts
\* them: a file written to output_root itself is in no team folder.
TotalActualFiles(out) == Cardinality({f \in out : f.team # << >>})

VerificationPassed(out, groups, count) ==
    /\ TotalActualFiles(out) = Len(groups)
    /\ TotalActualFiles(out) = count.total_copied

TeamRow(l, f, s, t, b) ==
    [lastname |-> l, firstname |-> f, spa |-> s, teamname |-> t, batch |-> b]

\* The rows a CSV is drawn from: one person with and without a team, a
\* second person in a second batch, a first name that holds a "|", and a
\* row whose SPA has no sequence number.
TeamRowPool ==
    {TeamRow(S_A, S_B, S_A_B_5000_png, << >>, S_JS10),
     TeamRow(S_A, S_B, S_A_B_T_1234_png, S_T, S_JS10),
     TeamRow(S_A, S_B, S_A_B_1234_png, << >>, S_JS10),
     TeamRow(S_C, S_D, S_C_D_T_2000_png, S_T, S_JS20),
     TeamRow(S_A, S_Bpipe, S_X_1234_png, S_T, S_JS10),
     TeamRow(S_C, S_D, S_C_D_png, << >>, S_JS20)}

TeamTables == UNION {[1..n -> TeamRowPool] : n \in 0..MaxRows}

\* The trees under root_folder: four files are always there, one of them
\* in a subfolder; one more may be missing, and the file of the subfolder
\* may have a namesake in a second subfolder.
TeamTrees ==
    {{File(<< >>, S_A_B_T_1234_png), File(<< >>, S_A_B_1234_png),
      File(<< >>, S_X_1234_png), File(S_sub, S_C_D_T_2000_png)} \cup opt :
        opt \in SUBSET {File(<< >>, S_A_B_5000_png),
                        File(S_other, S_C_D_T_2000_png)}}

\* The answers typed at the default-team prompt.
TeamAnswerPool == {<<" ">>, S_T}

InitTeams ==
    /\ LocIdle
    /\ RenIdle
    /\ CsvIdle
    /\ KwIdle
    /\ ScIdle
    /\ FnIdle
    /\ tfiles \in TeamTrees
    /\ trows \in TeamTables
    /\ thasBatch \in BOOLEAN
    /\ tgroups = << >>
    /\ twithout = << >>
    /\ tselected = << >>
    /\ tdefault = << >>
    /\ tidx = 0
    /\ tcopies = << >>
    /\ tout = {}
    /\ tcount = TeamCountZero
    /\ thist = TeamHistZero
    /\ tpc = "start"
    /\ tstatus = -1

\* The state after the read loop returned acc = [groups, without].
TeamsAfterRead(acc) ==
    IF acc.groups = << >>
    THEN /\ tpc' = "exit"
         /\ tstatus' = 1
         /\ thist' = Enter(thist, "read")
         /\ UNCHANGED <<tgroups, twithout, tidx>>
    ELSE /\ tgroups' = acc.groups
         /\ twithout' = acc.without
         /\ tstatus' = -1
         /\ tidx' = 1
         /\ IF Cardinality(BatchesOf(acc.groups)) > 1 /\ thasBatch
            THEN /\ tpc' = "batch_prompt"
                 /\ thist' = [Enter(Enter(thist, "read"), "batch_prompt")
                                 EXCEPT !.batches_seen = BatchesOf(acc.groups)]
            ELSE /\ tpc' = PhaseAfterBatches(acc.without)
                 /\ thist' = [Enter(Enter(thist, "read"),
                                    PhaseAfterBatches(acc.without))
                                 EXCEPT !.batches_seen = BatchesOf(acc.groups)]

\* run up to its first suspend point: the path and column checks, the read
\* loop, the batch detection.
TeamsRead ==
    /\ tpc = "start"
    /\ \/ \E pre \in {"no_csv", "no_root", "no_team_field", "no_columns"} :
             /\ tpc' = "exit"
             /\ tstatus' = 1
             /\ UNCHANGED <<tgroups, twithout, tidx, thist>>
       \/ TeamsAfterRead(ReadRows(trows, thasBatch))
    /\ UNCHANGED <<tfiles, trows, thasBatch, tselected, tdefault, tcopies,
                   tout, tcount>>
    /\ UNCHANGED <<locVars, renVars, csvVars, kwVars, scVars, fnVars>>

\* The state after prompt_batch_selection returned selected.
TeamsAfterBatchSelection(selected) ==
    \E without \in {InSelectedBatches(twithout, selected)} :
    /\ tselected' = selected
    /\ tgroups' = FilterGroups(tgroups, selected)
    /\ twithout' = without
    /\ tpc' = PhaseAfterBatches(without)
    /\ thist' = Enter(thist, PhaseAfterBatches(without))

\* One answer at the batch prompt: choice 0 stands for every answer that is
\* not a number of the menu, which repeats the question.
TeamsBatchAnswer ==
    /\ tpc = "batch_prompt"
    /\ \E batches \in {SortedBatches(BatchesOf(tgroups))} :
       \E choiceNum \in 0..(Len(batches) + 1) :
          IF choiceNum = 0
          THEN /\ thist.invalid_inputs < MaxReasks
               /\ thist' = [thist EXCEPT !.invalid_inputs = @ + 1]
               /\ UNCHANGED <<tselected, tgroups, twithout, tpc>>
          ELSE \E selected \in {BatchSelection(batches, choiceNum)} :
                  TeamsAfterBatchSelection(selected)
    /\ UNCHANGED <<tfiles, trows, thasBatch, tdefault, tidx, tcopies, tout,
                   tcount, tstatus>>
    /\ UNCHANGED <<locVars, renVars, csvVars, kwVars, scVars, fnVars>>

\* The default-team prompt accepting no answer at all.
TeamsTeamAnswerReasksAll ==
    /\ tpc = "team_prompt"
    /\ thist.invalid_inputs < MaxReasks
    /\ thist' = [thist EXCEPT !.invalid_inputs = @ + 1]
    /\ UNCHANGED <<tdefault, tgroups, twithout, tpc>>
    /\ UNCHANGED <<tfiles, trows, thasBatch, tselected, tidx, tcopies, tout,
                   tcount, tstatus>>
    /\ UNCHANGED <<locVars, renVars, csvVars, kwVars, scVars, fnVars>>

\* One answer at the default-team prompt: an answer that strips to nothing
\* repeats the question, any other is applied to every record without a
\* team and the groups are rebuilt.
TeamsTeamAnswer ==
    /\ tpc = "team_prompt"
    /\ \E answer \in TeamAnswerPool :
          IF Strip(answer) = << >>
          THEN /\ thist.invalid_inputs < MaxReasks
               /\ thist' = [thist EXCEPT !.invalid_inputs = @ + 1]
               /\ UNCHANGED <<tdefault, tgroups, twithout, tpc>>
          ELSE /\ tdefault' = Strip(answer)
               /\ tgroups' = RebuildGroups(<< >>, tgroups, Strip(answer))
               /\ twithout' = AllWithDefaultTeam(twithout, Strip(answer))
               /\ tpc' = "copy"
               /\ thist' = Enter(thist, "copy")
    /\ UNCHANGED <<tfiles, trows, thasBatch, tselected, tidx, tcopies, tout,
                   tcount, tstatus>>
    /\ UNCHANGED <<locVars, renVars, csvVars, kwVars, scVars, fnVars>>

\* The copy of the representative first of the group key: shutil.copy2
\* either writes dest_file or raises.
TeamsCopy(key, existing, first, raised) ==
    \E source_file \in FindImageFile(tfiles, first.spa) :
        /\ tcopies' = Append(tcopies,
               [key |-> key, teamname |-> KeyTeam(key),
                existing |-> existing, first |-> first,
                source_file |-> source_file,
                dest_file |-> [team |-> KeyTeam(key),
                               name |-> source_file.name],
                ok |-> ~raised])
        /\ tout' = IF raised THEN tout
                   ELSE tout \cup {[team |-> KeyTeam(key),
                                    name |-> source_file.name]}
        /\ tcount' = IF raised
                     THEN [tcount EXCEPT
                              !.total_person_team_assignments = @ + 1,
                              !.errors = @ + 1]
                     ELSE [tcount EXCEPT
                              !.total_person_team_assignments = @ + 1,
                              !.total_copied = @ + 1]

\* The copy loop without the skip of teams.py:387-394: a group without an
\* existing file is passed over uncounted.
TeamsAfterResolveUncounted(key, existing) ==
    IF existing = << >>
    THEN /\ tcount' = [tcount EXCEPT
                          !.total_person_team_assignments = @ + 1]
         /\ UNCHANGED <<tcopies, tout>>
    ELSE \E first \in {FirstFile(existing)} : \E raised \in BOOLEAN :
             TeamsCopy(key, existing, first, raised)

\* One iteration of the copy loop over the existing files of the group.
TeamsAfterResolve(key, existing) ==
    IF existing = << >>
    THEN /\ tcount' = [tcount EXCEPT
                          !.total_person_team_assignments = @ + 1,
                          !.missing_files = @ + 1]
         /\ UNCHANGED <<tcopies, tout>>
    ELSE \E first \in {FirstFile(existing)} : \E raised \in BOOLEAN :
             TeamsCopy(key, existing, first, raised)

\* One iteration of the copy loop.
TeamsProcessGroup ==
    /\ tpc = "copy"
    /\ tidx <= Len(tgroups)
    /\ \E existing \in {ExistingFiles(tfiles, tgroups[tidx].images)} :
          TeamsAfterResolve(tgroups[tidx].key, existing)
    /\ tidx' = tidx + 1
    /\ UNCHANGED <<tfiles, trows, thasBatch, tgroups, twithout, tselected,
                   tdefault, thist, tpc, tstatus>>
    /\ UNCHANGED <<locVars, renVars, csvVars, kwVars, scVars, fnVars>>

\* The verification and the summary after the copy loop; run returns 0.
TeamsVerify ==
    /\ tpc = "copy"
    /\ tidx > Len(tgroups)
    /\ tpc' = "done"
    /\ tstatus' = 0
    /\ thist' = Enter(thist, IF VerificationPassed(tout, tgroups, tcount)
                             THEN "verify_passed" ELSE "verify_failed")
    /\ UNCHANGED <<tfiles, trows, thasBatch, tgroups, twithout, tselected,
                   tdefault, tidx, tcopies, tout, tcount>>
    /\ UNCHANGED <<locVars, renVars, csvVars, kwVars, scVars, fnVars>>

NextTeams ==
    \/ TeamsRead
    \/ TeamsBatchAnswer
    \/ TeamsTeamAnswer
    \/ TeamsProcessGroup
    \/ TeamsVerify

SpecTeams == InitTeams /\ [][NextTeams]_vars

\* run with every statement that is not a prompt executed once reached,
\* and every prompt given, sooner or later, an answer it accepts: an answer
\* after which the prompt returns.
SpecTeamsFair ==
    /\ InitTeams
    /\ [][NextTeams]_vars
    /\ WF_vars(TeamsRead)
    /\ WF_vars(TeamsProcessGroup)
    /\ WF_vars(TeamsVerify)
    /\ WF_vars(TeamsBatchAnswer /\ tpc' # "batch_prompt")
    /\ WF_vars(TeamsTeamAnswer /\ tpc' # "team_prompt")

-----------------------------------------------------------------------------
(* Claims about teams                                                      *)

\* C8: in every copy made by a teams run the representative is the resolved
\* record of the group with the smallest sequence, and among the resolved
\* records of the group with that same sequence it is the one whose row
\* came first in the input table, also in a group formed by the default
\* team name.
C8_FirstInTableOnTies ==
    \A k \in 1..Len(tcopies) :
        \A j \in 1..Len(tcopies[k].existing) :
            /\ ~StrLess(tcopies[k].existing[j].sequence,
                        tcopies[k].first.sequence)
            /\ tcopies[k].existing[j].sequence = tcopies[k].first.sequence
                  => tcopies[k].first.row_index
                        <= tcopies[k].existing[j].row_index

PhaseRank(phase) ==
    CASE phase = "read" -> 1
      [] phase = "batch_prompt" -> 2
      [] phase = "team_prompt" -> 3
      [] phase = "copy" -> 4
      [] phase \in {"verify_passed", "verify_failed"} -> 5

\* C9: the phases of a teams run are entered in the order read, batch
\* prompt, default-team prompt, copy loop, verification, each at most once;
\* the batch prompt is called at most once and only with more than one
\* batch, the default-team prompt at most once and only with a remaining
\* record without a team; the accepted answer holds for every record; and
\* no copy is made before the prompts that were called have their answer.
C9_PhasesOnceInOrder ==
    /\ \A i \in 1..Len(thist.trace) : \A j \in (i + 1)..Len(thist.trace) :
          PhaseRank(thist.trace[i]) < PhaseRank(thist.trace[j])
    /\ thist.batch_calls <= 1
    /\ thist.batch_calls = 1 => Cardinality(thist.batches_seen) > 1
    /\ thist.team_calls <= 1
    /\ thist.team_calls = 1 => twithout # << >>
    /\ tpc = "team_prompt" =>
          \E i \in 1..Len(tgroups) : \E j \in 1..Len(tgroups[i].images) :
              tgroups[i].images[j].teamname = << >>
    /\ tselected # << >> =>
          \A i \in 1..Len(tgroups) : \A j \in 1..Len(tgroups[i].images) :
              tgroups[i].images[j].batch \in Range(tselected)
    /\ tdefault # << >> =>
          /\ \A i \in 1..Len(tgroups) : \A j \in 1..Len(tgroups[i].images) :
                tgroups[i].images[j].teamname # << >>
          /\ \A i \in 1..Len(twithout) : twithout[i].teamname = tdefault
    /\ tcopies # << >> =>
          /\ tpc \in {"copy", "done"}
          /\ thist.batch_calls = 1 => tselected # << >>
          /\ thist.team_calls = 1 => tdefault # << >>

\* A finished run that went through both prompts and copied a file.
C9_Witness ==
    /\ tpc = "done"
    /\ thist.trace = <<"read", "batch_prompt", "team_prompt", "copy",
                       "verify_passed">>
    /\ tcopies # << >>

\* The records the read loop kept, whatever their group.
RECURSIVE AllImages(_)
AllImages(groups) ==
    IF groups = << >> THEN << >>
    ELSE Head(groups).images \o AllImages(Tail(groups))

\* C10: once the copy loop is reached, every record read without a team
\* that the batch selection kept is in a group and has the default team
\* name, and no key of a group has an empty team component.
C10_NoEmptyTeamInKeys ==
    tpc \in {"copy", "done"} =>
        /\ \A rd \in Range(AllImages(ReadRows(trows, thasBatch).groups)) :
              (/\ rd.teamname = << >>
               /\ tselected = << >> \/ rd.batch \in Range(tselected))
              => \E kept \in Range(AllImages(tgroups)) :
                    /\ kept.row_index = rd.row_index
                    /\ kept.teamname = tdefault
                    /\ tdefault # << >>
        /\ \A i \in 1..Len(tgroups) : KeyTeam(tgroups[i].key) # << >>


\* The groups the copy loop has gone through.
ProcessedGroups == 1..(IF tpc \in {"copy", "done"} THEN tidx - 1 ELSE 0)

\* The processed groups none of whose records resolves to a file.
UnresolvedGroups ==
    {i \in ProcessedGroups :
        \A j \in 1..Len(tgroups[i].images) :
            FindImageFile(tfiles, tgroups[i].images[j].spa) = {}}

\* C11: in a teams run every copy operation belongs to a processed group
\* with at least one record that resolves to an existing file and copies a
\* file that exists, no group has two copy operations, every processed
\* group without a resolving record is counted in missing_files and has no
\* copy operation, and the copies are never more than the groups.
C11_AtMostOneCopyPerGroup ==
    /\ \A k \in 1..Len(tcopies) :
          /\ \E i \in ProcessedGroups \ UnresolvedGroups :
                tgroups[i].key = tcopies[k].key
          /\ tcopies[k].source_file \in tfiles
    /\ \A k \in 1..Len(tcopies) : \A l \in 1..Len(tcopies) :
          tcopies[k].key = tcopies[l].key => k = l
    /\ tcount.missing_files = Cardinality(UnresolvedGroups)
    /\ Len(tcopies) + tcount.missing_files = Cardinality(ProcessedGroups)
    /\ tcount.total_copied + tcount.errors = Len(tcopies)
    /\ Len(tcopies) <= Len(tgroups)

\* A finished run with one group copied and one group counted as missing.
C11_Witness ==
    /\ tpc = "done"
    /\ Len(tcopies) >= 1
    /\ tcount.missing_files >= 1
    /\ UnresolvedGroups # {}

\* C25 as stated: every run in which each prompt eventually receives an
\* answer it accepts reaches the summary and returns.
C25_ReachesSummary == <>(tpc = "done")

\* The positions at which run has ended: after the summary, at a return 1
\* of the checks before the prompts, or at the exception of teams.py:314.
TeamsEnded == tpc \in {"done", "exit", "raised"}

\* A step that stays at its position without advancing the copy loop.
TeamsRepeats == tpc' = tpc /\ tidx' = tidx

\* C25 amended: every run in which each prompt eventually receives an
\* answer it accepts ends (the summary and return 0, a return 1 of the
\* structural checks, or the exception raised for a person key that does
\* not unpack), and run repeats a step only at one of the two prompts.
C25_EndsGivenAnswers ==
    /\ <>TeamsEnded
    /\ [][TeamsRepeats => tpc \in {"batch_prompt", "team_prompt"}]_vars

\* C25 witness: a run that was asked for the batch and for the default
\* team, was re-asked once, and has reached the summary.
C25_Witness ==
    /\ tpc = "done"
    /\ thist.batch_calls = 1
    /\ thist.team_calls = 1
    /\ thist.invalid_inputs >= 1

-----------------------------------------------------------------------------
(* keywords: run                                                           *)

S_JS106537_JS123 ==
    S_JS106537_jpg \o <<",">> \o S_JS123_jpg
S_semicolon == <<";">>
S_sub_Allen_Brielle_6537_jpg == S_sub \o <<"/">> \o S_Allen_Brielle_6537_jpg
S_Brielle_Allen_kw == S_Brielle \o <<" ">> \o S_Allen

\* The longest CSV of a keywords run, in rows.
MaxKwRows == 2

\* The characters that separate photo references: the ones the regular
\* expression turns into commas, the comma, and str.split's whitespace.
FilenameSeparators == {"\r", "\n", ";", "|", ","} \cup Whitespace

\* The loop of split_filenames over cleaned.split(","): a chunk is
\* stripped, passed over when nothing is left, and split at whitespace.
RECURSIVE SplitStripped(_)
SplitStripped(chunks) ==
    IF chunks = << >> THEN << >>
    ELSE IF Strip(Head(chunks)) = << >> THEN SplitStripped(Tail(chunks))
    ELSE Pieces(Strip(Head(chunks)), Whitespace)
             \o SplitStripped(Tail(chunks))

\* split_filenames without the inner chunk.split(): a stripped chunk is
\* one filename.
SplitFilenamesChunksOnly(value) ==
    SelectSeq([i \in 1..Len(Pieces(ReSubCommas(value), {","})) |->
                  Strip(Pieces(ReSubCommas(value), {","})[i])],
              LAMBDA chunk : chunk # << >>)

\* split_filenames(value)
SplitFilenames(value) ==
    IF value = << >> THEN << >>
    ELSE SplitStripped(Pieces(ReSubCommas(value), {","}))

\* The maximal runs of a string without a separator, in order.
RECURSIVE SeparatorRuns(_)
SeparatorRuns(value) ==
    IF value = << >> THEN << >>
    ELSE IF Head(value) \in FilenameSeparators
         THEN SeparatorRuns(Tail(value))
         ELSE IF \A i \in 1..Len(value) : value[i] \notin FilenameSeparators
              THEN <<value>>
              ELSE <<SubSeq(value, 1,
                        (CHOOSE i \in 1..Len(value) :
                            /\ value[i] \in FilenameSeparators
                            /\ \A j \in 1..(i - 1) :
                                  value[j] \notin FilenameSeparators) - 1)>>
                   \o SeparatorRuns(SubSeq(value,
                        CHOOSE i \in 1..Len(value) :
                            /\ value[i] \in FilenameSeparators
                            /\ \A j \in 1..(i - 1) :
                                  value[j] \notin FilenameSeparators,
                        Len(value)))

\* get_value(row, norm_keys): the stripped value of the first of the
\* headers that the CSV has and whose value is not blank.
RECURSIVE GetValue(_, _, _)
GetValue(row, headers, normKeys) ==
    IF normKeys = << >> THEN << >>
    ELSE IF Head(normKeys) \in headers /\ Strip(row[Head(normKeys)]) # << >>
         THEN Strip(row[Head(normKeys)])
         ELSE GetValue(row, headers, Tail(normKeys))

\* filenames of a row, before the emptiness tests of the loop.
RowFilenames(row, headers) ==
    IF GetValue(row, headers, <<"photofilenames">>) # << >>
    THEN SplitFilenames(GetValue(row, headers, <<"photofilenames">>))
    ELSE IF GetValue(row, headers, <<"spa">>) = << >> THEN << >>
         ELSE <<GetValue(row, headers, <<"spa">>)>>

\* Why the loop skips the row before any lookup, "" when it does not.
RowSkip(row, headers, name) ==
    IF GetValue(row, headers, <<"photofilenames">>) # << >>
       /\ RowFilenames(row, headers) = << >>
    THEN "empty_after_parsing"
    ELSE IF GetValue(row, headers, <<"photofilenames">>) = << >>
            /\ GetValue(row, headers, <<"spa">>) = << >>
         THEN "no_value"
         ELSE IF name = << >> THEN "no_name" ELSE ""

\* name from first and last
FirstLastName(first, last) ==
    IF first # << >> \/ last # << >> THEN Strip(first \o <<" ">> \o last)
    ELSE << >>

\* The name keyword of a row: first and last, else the Name column.
RowName(row, headers) ==
    IF FirstLastName(GetValue(row, headers, <<"firstname">>),
                     GetValue(row, headers, <<"lastname">>)) # << >>
    THEN FirstLastName(GetValue(row, headers, <<"firstname">>),
                       GetValue(row, headers, <<"lastname">>))
    ELSE GetValue(row, headers, <<"name">>)

RowHint(row, headers) ==
    [first |-> GetValue(row, headers, <<"firstname">>),
     last |-> GetValue(row, headers, <<"lastname">>)]

\* Path(spa_value): the parent and the name of a reference.
SpaPath(fname) ==
    IF \A i \in 1..Len(fname) : fname[i] # "/" THEN File(<< >>, fname)
    ELSE File(SubSeq(fname, 1,
                  (CHOOSE i \in 1..Len(fname) :
                      /\ fname[i] = "/"
                      /\ \A j \in (i + 1)..Len(fname) : fname[j] # "/") - 1),
              SubSeq(fname,
                  (CHOOSE i \in 1..Len(fname) :
                      /\ fname[i] = "/"
                      /\ \A j \in (i + 1)..Len(fname) : fname[j] # "/") + 1,
                  Len(fname)))

\* keywords = [name] + [manual_keyword]
Keywords(name, manual) == IF manual = << >> THEN <<name>> ELSE <<name, manual>>

\* What exiftool prints for a list of keywords: the values, ", " between
\* them, one line.
RECURSIVE JoinComma(_)
JoinComma(list) ==
    IF list = << >> THEN << >>
    ELSE IF Len(list) = 1 THEN Head(list)
         ELSE Head(list) \o <<",", " ">> \o JoinComma(Tail(list))

\* verify_text = stdout + "\n" + stderr of the re-read of the temp copy,
\* with the keywords that landed in it.
VerifyText(landed) == JoinComma(landed) \o <<"\n">> \o <<"\n">>

\* name.lower() in verify_text.lower()
NameInVerifyTextAlways(name, verifyText) == TRUE

NameInVerifyText(name, verifyText) == Contains(Lower(verifyText), Lower(name))

KwRow(pf, spa, first, last, name) ==
    [photofilenames |-> pf, spa |-> spa, firstname |-> first,
     lastname |-> last, name |-> name]

\* The rows a CSV is drawn from: two references of which one is never
\* found, a list that parses to nothing, no reference at all, no name, and
\* a legacy row with SPA and Name.
KwRowPool ==
    {KwRow(S_JS106537_JS123, << >>, S_Brielle, S_Allen, << >>),
     KwRow(S_semicolon, << >>, S_Brielle, S_Allen, << >>),
     KwRow(<<" ">>, << >>, S_Brielle, S_Allen, << >>),
     KwRow(S_JS106537_jpg, << >>, << >>, << >>, << >>),
     KwRow(<< >>, S_sub_Allen_Brielle_6537_jpg, << >>, << >>,
           S_Brielle_Allen_kw)}

KwTables == UNION {[1..n -> KwRowPool] : n \in 0..MaxKwRows}

\* The header rows: both reference columns, one of them, none.
KwHeaderPool ==
    {{"firstname", "lastname", "name"} \cup refs :
        refs \in SUBSET {"spa", "photofilenames"}}

\* The trees under root_folder.
KwTrees ==
    SUBSET {File(<< >>, S_JS106537_jpg), File(<< >>, S_JS106537_3_jpg),
            File(S_sub, S_Allen_Brielle_6537_jpg)}

InitKeywords ==
    /\ LocIdle
    /\ RenIdle
    /\ CsvIdle
    /\ TeamIdle
    /\ ScIdle
    /\ FnIdle
    /\ kfiles \in KwTrees
    /\ kdirs = {S_sub}
    /\ krows \in KwTables
    /\ kheaders \in KwHeaderPool
    /\ kmanual \in {<< >>, S_T}
    /\ kfilenames = << >>
    /\ kidx = 0
    /\ kmatches = << >>
    /\ kmidx = 0
    /\ kname = << >>
    /\ khint = << >>
    /\ khad = FALSE
    /\ kcount = KwCountZero
    /\ kfailed = << >>
    /\ kmade = KwMadeNothing
    /\ kout = {}
    /\ kops = << >>
    /\ kpc = "start"
    /\ kstatus = -1

\* A line of failed_entries.
FailedEntry(row, kind, about) == [row |-> row, kind |-> kind, about |-> about]

\* run up to the row loop: the path checks, the two mkdir calls, the check
\* of the header row.
KeywordsStart ==
    /\ kpc = "start"
    /\ \E pre \in {"ok", "no_csv", "no_root"} :
          IF pre # "ok"
          THEN /\ kpc' = "exit"
               /\ kstatus' = 1
               /\ UNCHANGED kmade
          ELSE /\ kmade' = [kmade EXCEPT !.temp_dir = TRUE,
                                         !.output_root = TRUE]
               /\ IF "spa" \notin kheaders /\ "photofilenames" \notin kheaders
                  THEN kpc' = "exit" /\ kstatus' = 1
                  ELSE kpc' = "row" /\ kstatus' = -1
    /\ UNCHANGED <<kfiles, kdirs, krows, kheaders, kmanual, kfilenames, kidx,
                   kmatches, kmidx, kname, khint, khad, kcount, kfailed,
                   kout, kops>>
    /\ UNCHANGED <<locVars, renVars, csvVars, teamVars, scVars, fnVars>>

\* The head of the row loop for the row and its number, with the reason
\* the row is skipped for, if any.
KeywordsAfterRowHead(row, rowNumber, skip) ==
    IF skip # ""
    THEN /\ kfailed' = Append(kfailed, FailedEntry(rowNumber, skip, << >>))
         /\ kcount' = [kcount EXCEPT
                          !.total_rows = rowNumber,
                          !.skipped_no_name =
                              IF skip = "no_name" THEN @ + 1 ELSE @]
         /\ UNCHANGED <<kfilenames, kidx, kname, khint, khad, kpc>>
    ELSE /\ kfilenames' = RowFilenames(row, kheaders)
         /\ kname' = RowName(row, kheaders)
         /\ khint' = RowHint(row, kheaders)
         /\ kidx' = 1
         /\ khad' = FALSE
         /\ kpc' = "ref"
         /\ kcount' = [kcount EXCEPT !.total_rows = rowNumber]
         /\ UNCHANGED kfailed

\* One row of the CSV, up to its first filename.
KeywordsRow ==
    /\ kpc = "row"
    /\ kcount.total_rows < Len(krows)
    /\ KeywordsAfterRowHead(krows[kcount.total_rows + 1],
                            kcount.total_rows + 1,
                            RowSkip(krows[kcount.total_rows + 1], kheaders,
                                    RowName(krows[kcount.total_rows + 1],
                                            kheaders)))
    /\ UNCHANGED <<kfiles, kdirs, krows, kheaders, kmanual, kmatches, kmidx,
                   kmade, kout, kops, kstatus>>
    /\ UNCHANGED <<locVars, renVars, csvVars, teamVars, scVars, fnVars>>

\* The lookup of one filename returned matches.
KeywordsAfterLocate(fname, matches) ==
    IF matches = << >>
    THEN /\ kcount' = [kcount EXCEPT !.missing_files = @ + 1]
         /\ kfailed' = Append(kfailed,
                              FailedEntry(kcount.total_rows, "not_found",
                                          fname))
         /\ kidx' = kidx + 1
         /\ UNCHANGED <<kmatches, kmidx, kpc>>
    ELSE /\ kmatches' = matches
         /\ kmidx' = 1
         /\ kpc' = "file"
         /\ UNCHANGED <<kcount, kfailed, kidx>>

\* One filename of the row: locate_matches and the test of its result.
KeywordsRef ==
    /\ kpc = "ref"
    /\ kidx <= Len(kfilenames)
    /\ KeywordsAfterLocate(kfilenames[kidx],
           LocateMatches(kfiles, kdirs, SpaPath(kfilenames[kidx]),
                         khint).list)
    /\ UNCHANGED <<kfiles, kdirs, krows, kheaders, kmanual, kfilenames,
                   kname, khint, khad, kmade, kout, kops, kstatus>>
    /\ UNCHANGED <<locVars, renVars, csvVars, teamVars, scVars, fnVars>>

\* The end of a row's filenames.
KeywordsRowEnd ==
    /\ kpc = "ref"
    /\ kidx > Len(kfilenames)
    /\ kcount' = [kcount EXCEPT
                     !.rows_with_success = IF khad THEN @ + 1 ELSE @]
    /\ kpc' = "row"
    /\ UNCHANGED <<kfiles, kdirs, krows, kheaders, kmanual, kfilenames, kidx,
                   kmatches, kmidx, kname, khint, khad, kfailed, kmade, kout,
                   kops, kstatus>>
    /\ UNCHANGED <<locVars, renVars, csvVars, teamVars, scVars, fnVars>>

\* What the calls made for one matched file can do: each copy and the
\* exiftool write either raise or not, and the keywords either land in the
\* temp copy or do not.
KwEnvPool ==
    {[raises |-> "temp_copy", landed |-> FALSE],
     [raises |-> "write", landed |-> FALSE],
     [raises |-> "none", landed |-> FALSE],
     [raises |-> "none", landed |-> TRUE],
     [raises |-> "dest_copy", landed |-> TRUE]}

\* The text the verification reads, << >> when the try block does not get
\* that far.
KwVerifyText(env, name, manual) ==
    IF env.raises \in {"temp_copy", "write"} THEN << >>
    ELSE VerifyText(IF env.landed THEN Keywords(name, manual) ELSE << >>)

\* Whether the try block ends in its except clause.
KwRaised(env, name, manual) ==
    \/ env.raises # "none"
    \/ ~NameInVerifyText(name, KwVerifyText(env, name, manual))

\* The except clause without its failed_entries.append.
KeywordsAfterFileUnlisted(orig, env, raised) ==
    /\ kops' = Append(kops,
           [row |-> kcount.total_rows, idx |-> kidx, m_idx |-> kmidx,
            orig |-> orig, name |-> kname,
            verified |-> env.raises \notin {"temp_copy", "write"},
            verify_text |-> KwVerifyText(env, kname, kmanual),
            success |-> ~raised,
            written |-> ~raised])
    /\ kout' = IF raised THEN kout ELSE kout \cup {orig}
    /\ khad' = (khad \/ ~raised)
    /\ kcount' = IF raised
                 THEN [kcount EXCEPT !.files_attempted = @ + 1,
                                     !.errors = @ + 1]
                 ELSE [kcount EXCEPT !.files_attempted = @ + 1,
                                     !.files_success = @ + 1]
    /\ UNCHANGED kfailed

\* The body of the loop over matches for the file orig: the try block and
\* its except clause.
KeywordsAfterFile(orig, env, raised) ==
    /\ kops' = Append(kops,
           [row |-> kcount.total_rows, idx |-> kidx, m_idx |-> kmidx,
            orig |-> orig, name |-> kname,
            verified |-> env.raises \notin {"temp_copy", "write"},
            verify_text |-> KwVerifyText(env, kname, kmanual),
            success |-> ~raised,
            written |-> ~raised])
    /\ kout' = IF raised THEN kout ELSE kout \cup {orig}
    /\ khad' = (khad \/ ~raised)
    /\ kcount' = IF raised
                 THEN [kcount EXCEPT !.files_attempted = @ + 1,
                                     !.errors = @ + 1]
                 ELSE [kcount EXCEPT !.files_attempted = @ + 1,
                                     !.files_success = @ + 1]
    /\ kfailed' = IF raised
                  THEN Append(kfailed,
                              FailedEntry(kcount.total_rows, "error", orig))
                  ELSE kfailed

\* One matched file of the filename.
KeywordsFile ==
    /\ kpc = "file"
    /\ \E env \in KwEnvPool :
          KeywordsAfterFile(kmatches[kmidx], env,
                            KwRaised(env, kname, kmanual))
    /\ IF kmidx < Len(kmatches)
       THEN kmidx' = kmidx + 1 /\ UNCHANGED <<kidx, kpc>>
       ELSE kmidx' = kmidx /\ kidx' = kidx + 1 /\ kpc' = "ref"
    /\ UNCHANGED <<kfiles, kdirs, krows, kheaders, kmanual, kfilenames,
                   kmatches, kname, khint, kmade, kstatus>>
    /\ UNCHANGED <<locVars, renVars, csvVars, teamVars, scVars, fnVars>>

\* After the last row: the count of the output files, the failures log,
\* whose writing may raise, the summary; run returns 0.
KeywordsFinish ==
    /\ kpc = "row"
    /\ kcount.total_rows = Len(krows)
    /\ \E logRaises \in BOOLEAN :
          kmade' = [kmade EXCEPT !.log = ~logRaises]
    /\ kpc' = "done"
    /\ kstatus' = 0
    /\ UNCHANGED <<kfiles, kdirs, krows, kheaders, kmanual, kfilenames, kidx,
                   kmatches, kmidx, kname, khint, khad, kcount, kfailed,
                   kout, kops>>
    /\ UNCHANGED <<locVars, renVars, csvVars, teamVars, scVars, fnVars>>

NextKeywords ==
    \/ KeywordsStart
    \/ KeywordsRow
    \/ KeywordsRef
    \/ KeywordsRowEnd
    \/ KeywordsFile
    \/ KeywordsFinish

SpecKeywords == InitKeywords /\ [][NextKeywords]_vars

-----------------------------------------------------------------------------
(* Claims about keywords                                                   *)

\* C12: a run that returns on a missing table, a missing root or a missing
\* required column returns a non-zero status and has created nothing: no
\* temp directory, no output directory, no file.
C12_NothingCreatedOnStructuralFailure ==
    kpc = "exit" =>
        /\ kstatus # 0
        /\ kmade = KwMadeNothing
        /\ kout = {}

\* The lines of failed_entries of one kind.
FailedOfKind(kind) == {i \in 1..Len(kfailed) : kfailed[i].kind = kind}

\* C13: in a keywords run every filename that is not found counts once in
\* missing_files and has one line in failed_entries, every matched file
\* whose processing raises or whose verification fails counts once in
\* errors and has one line, every other matched file counts as a success;
\* after any of them the run is at a row, a filename or a matched file
\* that it goes on with, and it ends after the last row with status 0.
C13_PerItemFailuresCounted ==
    /\ kcount.missing_files = Cardinality(FailedOfKind("not_found"))
    /\ kcount.errors = Cardinality(FailedOfKind("error"))
    /\ kcount.errors = Cardinality({k \in 1..Len(kops) : ~kops[k].success})
    /\ kcount.files_attempted = Len(kops)
    /\ kcount.files_attempted = kcount.files_success + kcount.errors
    /\ Len(kfailed) = kcount.missing_files + kcount.errors
                        + Cardinality(FailedOfKind("empty_after_parsing"))
                        + Cardinality(FailedOfKind("no_value"))
                        + Cardinality(FailedOfKind("no_name"))
    /\ \A k \in 1..Len(kops) :
          ~kops[k].success =>
              \E i \in FailedOfKind("error") :
                  /\ kfailed[i].row = kops[k].row
                  /\ kfailed[i].about = kops[k].orig
    /\ kpc = "row" => kcount.total_rows <= Len(krows)
    /\ kpc = "ref" => kidx \in 1..(Len(kfilenames) + 1)
    /\ kpc = "file" => kmidx \in 1..Len(kmatches)
    /\ kpc = "done" => kstatus = 0 /\ kcount.total_rows = Len(krows)
    /\ kstatus \notin {-1, 0} => kcount.total_rows = 0 /\ kfailed = << >>

\* A finished run with a filename not found, a failed verification and a
\* file keyworded after that failure.
C13_Witness ==
    /\ kpc = "done"
    /\ kcount.missing_files >= 1
    /\ \E k \in 1..Len(kops) : \E l \in (k + 1)..Len(kops) :
          /\ kops[k].verified
          /\ ~kops[k].success
          /\ ~Contains(kops[k].verify_text, kops[k].name)
          /\ kops[l].success

\* C15: a matched file counts as keyworded and is written under the output
\* root only when the re-read of its temp copy holds the name keyword; a
\* file whose re-read does not hold it counts as an error, has a line in
\* failed_entries and is not written.
C15_VerifiedBeforeCounted ==
    /\ \A k \in 1..Len(kops) :
          (kops[k].success \/ kops[k].written) =>
              /\ kops[k].verified
              /\ Contains(kops[k].verify_text, kops[k].name)
    /\ \A k \in 1..Len(kops) :
          (kops[k].verified
              /\ ~Contains(kops[k].verify_text, kops[k].name)) =>
              /\ ~kops[k].success
              /\ ~kops[k].written
              /\ \E i \in FailedOfKind("error") :
                    /\ kfailed[i].row = kops[k].row
                    /\ kfailed[i].about = kops[k].orig
    /\ kcount.files_success = Cardinality({k \in 1..Len(kops) :
                                              kops[k].success})
    /\ \A f \in kout : \E k \in 1..Len(kops) :
          kops[k].orig = f /\ kops[k].written

\* A run in which one file failed its verification and is not under the
\* output root, and another file passed and is.
C15_Witness ==
    \E k \in 1..Len(kops) : \E l \in 1..Len(kops) :
        /\ kops[k].verified
        /\ ~Contains(kops[k].verify_text, kops[k].name)
        /\ kops[k].orig \notin kout
        /\ kops[l].success
        /\ kops[l].orig \in kout
        /\ kcount.errors >= 1

-----------------------------------------------------------------------------
(* scale: get_image_files, scale_image, run                                *)

S_notes_txt == <<"n", "o", "t", "e", "s", ".", "t", "x", "t">>

\* The most entries of a source folder.
MaxImages == 2

\* The largest --size and the largest long side of an image, in pixels.
MaxSize == 2

\* image_extensions
ImageExtensions == {S_jpg, S_jpeg, S_png, S_JPG, S_JPEG, S_PNG}

\* get_image_files(directory): the entries with an image suffix, sorted.
GetImageFiles(entries) ==
    LET names == SortedBatches({e.name : e \in {x \in entries :
                                   Suffix(x.name) \in ImageExtensions}})
    IN  [i \in 1..Len(names) |-> CHOOSE e \in entries : e.name = names[i]]

\* Whether scale_image leaves without resizing: calculate_scaled_dimensions
\* gives the long side the target size, so the dimensions are unchanged
\* exactly when the long side already has it.
AlreadyScaled(image, size) == image.long = size

\* An entry of the source folder: its name, the long side of the image, and
\* whether opening, resizing or saving it raises.
ImageEntry(n, l, b) == [name |-> n, long |-> l, bad |-> b]

ImagePool ==
    {ImageEntry(n, l, b) :
        n \in {S_JS1_jpg, S_JS1_png, S_JS2_jpg}, l \in 1..MaxSize,
        b \in BOOLEAN}
    \cup {ImageEntry(S_notes_txt, 1, TRUE)}

InitScale ==
    /\ LocIdle
    /\ RenIdle
    /\ CsvIdle
    /\ TeamIdle
    /\ KwIdle
    /\ FnIdle
    /\ simages \in {S \in SUBSET ImagePool :
                       /\ Cardinality(S) <= MaxImages
                       /\ \A e \in S : \A g \in S : e.name = g.name => e = g}
    /\ ssize \in 0..MaxSize
    /\ sexists \in BOOLEAN
    /\ smade = FALSE
    /\ sout \in SUBSET {e.name : e \in simages}
    /\ sidx = 0
    /\ scount = ScCountZero
    /\ spc = "start"
    /\ sstatus = -1

\* run up to the loop: the checks of the folder and the size, the mkdir,
\* the listing of the images.
ScaleStart ==
    /\ spc = "start"
    /\ IF ~sexists \/ ssize <= 0
       THEN spc' = "exit" /\ sstatus' = 1 /\ UNCHANGED <<smade, sidx>>
       ELSE /\ smade' = TRUE
            /\ IF GetImageFiles(simages) = << >>
               THEN spc' = "done" /\ sstatus' = 0 /\ UNCHANGED sidx
               ELSE spc' = "loop" /\ sstatus' = -1 /\ sidx' = 1
    /\ UNCHANGED <<simages, ssize, sexists, sout, scount>>
    /\ UNCHANGED <<locVars, renVars, csvVars, teamVars, kwVars, fnVars>>

\* One iteration of the loop for the image: an existing output is skipped;
\* scale_image returns False when it raises; when it returns True the
\* output is opened for its dimensions, which raises out of run when
\* scale_image left without writing it.
ScaleAfterImage(image) ==
    IF image.name \in sout
    THEN /\ scount' = [scount EXCEPT !.skipped = @ + 1]
         /\ sidx' = sidx + 1
         /\ UNCHANGED <<sout, spc>>
    ELSE IF image.bad
         THEN /\ scount' = [scount EXCEPT !.failed = @ + 1]
              /\ sidx' = sidx + 1
              /\ UNCHANGED <<sout, spc>>
         ELSE IF AlreadyScaled(image, ssize)
              THEN /\ spc' = "raised"
                   /\ UNCHANGED <<scount, sidx, sout>>
              ELSE /\ scount' = [scount EXCEPT !.successful = @ + 1]
                   /\ sout' = sout \cup {image.name}
                   /\ sidx' = sidx + 1
                   /\ UNCHANGED spc

ScaleImage ==
    /\ spc = "loop"
    /\ sidx <= Len(GetImageFiles(simages))
    /\ ScaleAfterImage(GetImageFiles(simages)[sidx])
    /\ UNCHANGED <<simages, ssize, sexists, smade, sstatus>>
    /\ UNCHANGED <<locVars, renVars, csvVars, teamVars, kwVars, fnVars>>

\* The summary; run returns 0 if failed == 0 else 1.
ScaleFinish ==
    /\ spc = "loop"
    /\ sidx > Len(GetImageFiles(simages))
    /\ spc' = "done"
    /\ sstatus' = IF scount.failed = 0 THEN 0 ELSE 1
    /\ UNCHANGED <<simages, ssize, sexists, smade, sout, sidx, scount>>
    /\ UNCHANGED <<locVars, renVars, csvVars, teamVars, kwVars, fnVars>>

NextScale ==
    \/ ScaleStart
    \/ ScaleImage
    \/ ScaleFinish

SpecScale == InitScale /\ [][NextScale]_vars

\* C14: a run that passed its structural checks and completed returns 0
\* whatever the number of images that failed, and a run returns a non-zero
\* status only from its structural checks.
C14_ZeroUnlessStructural ==
    /\ spc = "done" => sstatus = 0
    /\ sstatus \notin {-1, 0} => spc = "exit"


-----------------------------------------------------------------------------
(* One call of a function, for every argument of a bounded set             *)

CommandsIdle ==
    /\ LocIdle
    /\ RenIdle
    /\ CsvIdle
    /\ TeamIdle
    /\ KwIdle
    /\ ScIdle

cmdVars == <<locVars, renVars, csvVars, teamVars, kwVars, scVars>>

\* All strings of at most n characters of a set.
StringsOver(chars, n) == UNION {[1..k -> chars] : k \in 0..n}

-----------------------------------------------------------------------------
(* csvgen.sanitize                                                         *)

\* The longest argument of sanitize.
MaxSanLen == 3

\* Whitespace, kept characters of each class and two removed ones.
SanitizeChars == {" ", "\t", "\n", "A", "z", "0", "_", "-", "'", "."}

InitSanitize ==
    /\ CommandsIdle
    /\ farg \in StringsOver(SanitizeChars, MaxSanLen)
    /\ fres = << >>
    /\ fpc = "call"

\* sanitize(value)
SanitizeCall ==
    /\ fpc = "call"
    /\ fres' = <<Sanitize(farg)>>
    /\ fpc' = "returned"
    /\ UNCHANGED <<farg, cmdVars>>

\* sanitize applied to what it returned.
SanitizeAgain ==
    /\ fpc = "returned"
    /\ fres' = Append(fres, Sanitize(fres[1]))
    /\ fpc' = "done"
    /\ UNCHANGED <<farg, cmdVars>>

NextSanitize ==
    \/ SanitizeCall
    \/ SanitizeAgain

SpecSanitize == InitSanitize /\ [][NextSanitize]_vars

\* C21: sanitize applied to a value sanitize returned returns that value.
C21_SanitizeIdempotent ==
    fpc = "done" => fres[2] = fres[1]

\* C21 witness: an argument that sanitize changes (a removed character
\* between two kept ones and a space to trim) has been sanitized twice.
C21_Witness ==
    /\ fpc = "done"
    /\ farg = <<" ", "A", "'">>
    /\ fres = << <<"A">>, <<"A">> >>

\* Every whitespace character replaced by an underscore.
WhitespaceToUnderscores(str) ==
    [i \in 1..Len(str) |-> IF str[i] \in Whitespace THEN "_" ELSE str[i]]

\* C22: sanitize returns its argument without the surrounding whitespace,
\* with every internal whitespace character (space, tab, newline) turned
\* into an underscore and every character outside [A-Za-z0-9_-] then
\* removed; the result holds only characters of [A-Za-z0-9_-].
C22_WhitespaceToUnderscore ==
    fpc \in {"returned", "done"} =>
        /\ fres[1] = SelectSeq(WhitespaceToUnderscores(Strip(farg)),
                               IsSafeChar)
        /\ \A i \in 1..Len(fres[1]) : IsSafeChar(fres[1][i])


-----------------------------------------------------------------------------
(* csvgen.extract_batch_prefix                                             *)

\* The longest filename given to extract_batch_prefix, the two named
\* examples apart.
MaxPrefixLen == 4

\* Letters of both cases, two digits, and the two other characters of
\* the filenames.
PrefixChars == {"J", "s", "1", "0", "_", "."}

InitBatchPrefix ==
    /\ CommandsIdle
    /\ farg \in StringsOver(PrefixChars, MaxPrefixLen)
                   \cup {S_JS106537_jpg, S_Allen_Brielle_6537_3_jpg}
    /\ fres = << >>
    /\ fpc = "call"

\* extract_batch_prefix(filename)
BatchPrefixCall ==
    /\ fpc = "call"
    /\ fres' = <<ExtractBatchPrefix(farg)>>
    /\ fpc' = "returned"
    /\ UNCHANGED <<farg, cmdVars>>

NextBatchPrefix == BatchPrefixCall

SpecBatchPrefix == InitBatchPrefix /\ [][NextBatchPrefix]_vars

\* The number of letters a string starts with.
LeadingLetters(str) ==
    Cardinality({n \in 1..Len(str) : \A i \in 1..n : IsLetter(str[i])})

\* A stem of one or more letters immediately followed by two digits.
CameraStem(stem) ==
    /\ LeadingLetters(stem) >= 1
    /\ LeadingLetters(stem) + 2 <= Len(stem)
    /\ IsDigit(stem[LeadingLetters(stem) + 1])
    /\ IsDigit(stem[LeadingLetters(stem) + 2])

\* C23: extract_batch_prefix returns the leading letters and the next two
\* digits of a stem that starts with letters immediately followed by at
\* least two digits, and UNKNOWN for every other filename; JS106537.jpg
\* gives JS10 and Allen_Brielle_6537_3.jpg gives UNKNOWN.
C23_LettersAndTwoDigits ==
    fpc = "returned" =>
        /\ CameraStem(Stem(farg)) =>
              fres[1] = SubSeq(Stem(farg), 1,
                               LeadingLetters(Stem(farg)) + 2)
        /\ ~CameraStem(Stem(farg)) => fres[1] = S_UNKNOWN
        /\ farg = S_JS106537_jpg => fres[1] = S_JS10
        /\ farg = S_Allen_Brielle_6537_3_jpg => fres[1] = S_UNKNOWN

\* C23 witness: the camera export has given JS10.
C23_Witness ==
    /\ fpc = "returned"
    /\ farg = S_JS106537_jpg
    /\ fres = <<S_JS10>>

-----------------------------------------------------------------------------
(* csvgen.parse_filenames and keywords' split_filenames                    *)

\* The longest string parsed, in characters.
MaxParseLen == 4

\* The characters of the strings parsed: every separator, two kinds of
\* whitespace, and two letters.
ParseChars == {",", ";", "|", "\n", "\r", " ", "\t", "a", "b"}

InitParsers ==
    /\ CommandsIdle
    /\ farg \in StringsOver(ParseChars, MaxParseLen)
    /\ fres = << >>
    /\ fpc = "call"

\* parse_filenames(farg)
ParseFilenamesCall ==
    /\ fpc = "call"
    /\ fres' = <<ParseFilenames(farg)>>
    /\ fpc' = "parsed"
    /\ UNCHANGED farg
    /\ UNCHANGED cmdVars

\* split_filenames(farg)
SplitFilenamesCall ==
    /\ fpc = "parsed"
    /\ fres' = Append(fres, SplitFilenames(farg))
    /\ fpc' = "done"
    /\ UNCHANGED farg
    /\ UNCHANGED cmdVars

NextParsers ==
    \/ ParseFilenamesCall
    \/ SplitFilenamesCall

SpecParsers == InitParsers /\ [][NextParsers]_vars

\* C26: parse_filenames and split_filenames return the same tokens for the
\* same string: its maximal runs without a comma, semicolon, bar, line
\* break, carriage return or whitespace, in order, none of them empty and
\* none holding a separator.
C26_ParsersAgree ==
    fpc = "done" =>
        /\ fres[1] = fres[2]
        /\ fres[1] = SeparatorRuns(farg)
        /\ \A i \in 1..Len(fres[1]) :
              /\ fres[1][i] # << >>
              /\ \A j \in 1..Len(fres[1][i]) :
                    fres[1][i][j] \notin FilenameSeparators

\* C26 witness: both parsers have returned two tokens, in order, for a
\* string that separates them by a bar followed by a space.
C26_Witness ==
    /\ fpc = "done"
    /\ farg = <<"b", "|", " ", "a">>
    /\ fres[2] = <<<<"b">>, <<"a">>>>

-----------------------------------------------------------------------------
(* csvgen.expand_rows, called on one photo reference                       *)

\* The longest photo reference, in characters.
MaxRefLen == 5

\* The characters of the photo references: two digits, a letter, the dot
\* and the path separator.
RefChars == {"1", "2", "a", ".", "/"}

S_1111a22222 == <<"1", "1", "1", "1", "a", "2", "2", "2", "2", "2">>

\* The roster records expanded: with and without a team.
ExpandedRows == {row \in RosterPool : /\ row.LASTNAME = S_Allen
                                      /\ row.NUMBER = << >>
                                      /\ row.GRADE = << >>
                                      /\ row.NAME = S_Brielle_Allen
                                      /\ row.TEAMNAME # S_J_V}

InitFileNumber ==
    /\ CommandsIdle
    /\ farg \in StringsOver(RefChars, MaxRefLen)
                   \cup {S_JS106537_jpg, S_Allen_Brielle_6537_3_jpg,
                         S_1111a22222}
    /\ fres = << >>
    /\ fpc = "call"

\* expand_rows(row, [farg], batch_suffix_map)
ExpandRowsCall ==
    /\ fpc = "call"
    /\ \E row \in ExpandedRows, map \in SuffixMaps :
          fres' = ExpandRows(row, <<farg>>, map)
    /\ fpc' = "returned"
    /\ UNCHANGED <<farg, cmdVars>>

NextFileNumber == ExpandRowsCall

SpecFileNumber == InitFileNumber /\ [][NextFileNumber]_vars

\* The maximal runs of four or more digits of a stem, as <<first, last>>.
LongDigitRuns(stem) ==
    {r \in (1..Len(stem)) \X (1..Len(stem)) :
        /\ r[1] + 3 <= r[2]
        /\ \A j \in r[1]..r[2] : IsDigit(stem[j])
        /\ r[1] = 1 \/ ~IsDigit(stem[r[1] - 1])
        /\ r[2] = Len(stem) \/ ~IsDigit(stem[r[2] + 1])}

\* The last four digits of the first of these runs, "0000" without one.
LastFourOfFirstRun(stem) ==
    IF LongDigitRuns(stem) = {} THEN S_0000
    ELSE SubSeq(stem,
                (CHOOSE r \in LongDigitRuns(stem) :
                    \A q \in LongDigitRuns(stem) : r[1] <= q[1])[2] - 3,
                (CHOOSE r \in LongDigitRuns(stem) :
                    \A q \in LongDigitRuns(stem) : r[1] <= q[1])[2])

\* The records written by the call, .jpg and .png.
WrittenRecords == Range(fres.jpg) \cup Range(fres.png)

\* C27: the FILENUMBER of every record that expand_rows writes for a
\* photo reference is four decimal digits: the last four digits of the
\* first run of four or more digits of the reference's stem, or "0000"
\* when the stem has no such run.
C27_FileNumberFourDigits ==
    fpc = "returned" =>
        /\ Len(fres.jpg) = 1 /\ Len(fres.png) = 1
        /\ \A rec \in WrittenRecords :
              /\ Len(rec.FILENUMBER) = 4
              /\ \A i \in 1..4 : IsDigit(rec.FILENUMBER[i])
              /\ rec.FILENUMBER = LastFourOfFirstRun(PathStem(farg))

\* C27 witness: a reference with a run of four digits and, after a letter,
\* a run of five: the records carry the digits of the first run.
C27_Witness ==
    /\ fpc = "returned"
    /\ farg = S_1111a22222
    /\ \A rec \in WrittenRecords : rec.FILENUMBER = <<"1", "1", "1", "1">>

-----------------------------------------------------------------------------
(* csvgen.expand_rows followed by teams.extract_sequence_number           *)

\* The longest batch suffix, in characters.
MaxSuffixLen == 4

\* The characters of the batch suffixes: a character that sanitize would
\* keep, a digit, the dot and the path separator.
SuffixChars == {"_", "1", ".", "/"}

S_Allen2024 == S_Allen \o <<"2", "0", "2", "4">>
S_20251 == <<"2", "0", "2", "5", "1">>
S_12345 == <<"1", "2", "3", "4", "5">>

\* Roster records with digits in the name, the team, the number and the
\* grade.
DigitRows ==
    [LASTNAME : {S_Allen2024}, FIRSTNAME : {S_Brielle},
     TEAMNAME : {S_20251, << >>}, NUMBER : {S_12345, S_42, << >>},
     GRADE : {S_5}, NAME : {S_Brielle_Allen}]

InitRoundTrip ==
    /\ CommandsIdle
    /\ farg \in [fname : {S_JS106537_jpg, S_photo_jpg},
                 row : DigitRows,
                 suffix : StringsOver(SuffixChars, MaxSuffixLen)]
    /\ fres = << >>
    /\ fpc = "call"

\* expand_rows(row, [fname], {batch of fname: suffix}): the records of
\* output_jpg followed by those of output_png.
ExpandForTeams ==
    /\ fpc = "call"
    /\ \E out \in {ExpandRows(farg.row, <<farg.fname>>,
                              {[batch |-> ExtractBatchPrefix(farg.fname),
                                suffix |-> farg.suffix]})} :
          fres' = [written |-> out.jpg \o out.png, sequence |-> << >>]
    /\ fpc' = "expanded"
    /\ UNCHANGED <<farg, cmdVars>>

\* extract_sequence_number(row["SPA"]) for each of the records.
SequenceCall ==
    /\ fpc = "expanded"
    /\ fres' = [fres EXCEPT !.sequence =
                   [i \in 1..Len(fres.written) |->
                       ExtractSequenceNumber(fres.written[i].SPA)]]
    /\ fpc' = "extracted"
    /\ UNCHANGED <<farg, cmdVars>>

NextRoundTrip ==
    \/ ExpandForTeams
    \/ SequenceCall

SpecRoundTrip == InitRoundTrip /\ [][NextRoundTrip]_vars

\* A batch suffix that is empty or starts with a non-digit, and holds
\* neither a run of four or more digits nor a dot.
SuffixAsClaimed(suffix) ==
    /\ suffix = << >> \/ ~IsDigit(suffix[1])
    /\ LongDigitRuns(suffix) = {}
    /\ "." \notin Range(suffix)

\* Every record's re-extracted sequence is its FILENUMBER.
SequencesRoundTrip ==
    \A i \in 1..Len(fres.written) :
        fres.sequence[i] = fres.written[i].FILENUMBER

\* C28 as stated: for every record of expand_rows whose batch suffix is
\* empty or starts with a non-digit and holds neither a run of four or
\* more digits nor a dot, extract_sequence_number of the record's SPA is
\* the record's FILENUMBER, whatever digits the other tokens hold.
C28_SequenceRoundTrip ==
    fpc = "extracted" /\ SuffixAsClaimed(farg.suffix) => SequencesRoundTrip

\* C28 amended: the same, for the batch suffixes that in addition hold no
\* path separator.
C28_RoundTripWithoutSeparator ==
    /\ fpc = "extracted"
    /\ SuffixAsClaimed(farg.suffix)
    /\ "/" \notin Range(farg.suffix)
    => SequencesRoundTrip

\* C28 witness: a record with a run of digits in its name, team and
\* number and a batch suffix with a digit gives back its FILENUMBER.
C28_Witness ==
    /\ fpc = "extracted"
    /\ farg.fname = S_JS106537_jpg
    /\ farg.row.TEAMNAME = S_20251
    /\ farg.row.NUMBER = S_12345
    /\ farg.suffix = <<"_", "1">>
    /\ Len(fres.written) = 2
    /\ \A i \in 1..2 : fres.sequence[i] = <<"6", "5", "3", "7">>

=============================================================================
